---- MODULE Spec2Model ----
(***************************************************************************)
(* A model of the texere rope package: the change algebra (ChangeSet,      *)
(* Transaction) and the undo/redo history tree (History).                  *)
(*                                                                         *)
(* Go slices are modelled as TLA+ sequences; the indices kept in the       *)
(* program's fields (parent, lastChild, current) stay 0-based as in the    *)
(* source, and At(s, i) reads the element with Go index i.  A pointer that *)
(* may be nil is a sequence of length 0 (nil) or 1 (the pointee).          *)
(***************************************************************************)
EXTENDS Integers, Sequences, FiniteSets, TLC

\* ------------------------------------------------------------------ bounds
\* Number of non-empty CommitRevision calls in one run (readings of the clock).
MaxCommits == 3
\* Longest document the caller edits.
MaxDocLen == 2
\* Largest size handed to SetMaxSize.
MaxSizeArg == 2
\* Largest step count handed to Earlier and Later.
MaxSteps == 2

\* Longest rope a changeset is built against.
MaxRopeLen == 2
\* Most operations in one changeset.
MaxOps == 2
\* Most positions handed to one PositionMapper.
MaxPositions == 2
\* Most operations in a second changeset, composed with or transformed
\* against the first.
MaxSecondOps == 1

\* Most local operations a Client makes, and most remote operations it gets.
MaxLocalOps == 4
MaxRemoteOps == 3

\* The longest text of a rope read by lines, and the calls of Next() made
\* after the iterator is past the last line.
MaxTextLen == 3
MaxExtraCalls == 2

\* The longest text of a rope kept as a tree, and the height of the tree.
MaxTreeLen == 3
MaxDepth == 2

\* The ranges of a Selection, and the last position of the document under it.
MaxRanges == 2
MaxSelPos == 2

\* The characters of the rope New makes, and the ropes derived from it.
MaxNewLen == 2
MaxEdits == 2

\* The calls of Stats() and of write operations started in one run.
MaxCalls == 3

\* history.go:31, the cap a new History starts with.
DefaultMaxSize == 1000

Alphabet == {"a", "b"}

\* A rune outside the basic multilingual plane: one rune, two UTF-16 units.
Astral == "U+1D11E"

\* ---------------------------------------------------------------- pointers
Nil == <<>>
Ptr(x) == <<x>>
IsNil(p) == p = <<>>
Deref(p) == p[1]

\* Element of a Go slice at 0-based index i.
At(s, i) == s[i + 1]

Min2(a, b) == IF a < b THEN a ELSE b

\* -------------------------------------------------------------------- rope
\* A rope is modelled by its text, a sequence of characters.  The editing
\* primitives answer with a record: panic is TRUE when the range check of
\* the primitive fails.
RopeOk(text) == [panic |-> FALSE, text |-> text]
RopePanic == [panic |-> TRUE, text |-> <<>>]

RopeInsert(r, pos, text) ==
    IF pos < 0 \/ pos > Len(r)
    THEN RopePanic
    ELSE RopeOk(SubSeq(r, 1, pos) \o text \o SubSeq(r, pos + 1, Len(r)))

RopeDelete(r, start, end) ==
    IF start < 0 \/ end > Len(r) \/ start > end
    THEN RopePanic
    ELSE RopeOk(SubSeq(r, 1, start) \o SubSeq(r, end + 1, Len(r)))

RopeSlice(r, start, end) ==
    IF start < 0 \/ end > Len(r) \/ start > end
    THEN RopePanic
    ELSE RopeOk(SubSeq(r, start + 1, end))

\* len([]rune(text)): every character of Alphabet is one rune.
RuneLen(text) == Len(text)

\* --------------------------------------------------------------- changeset
OpRetain == "OpRetain"
OpDelete == "OpDelete"
OpInsert == "OpInsert"

Operation(t, n, text) == [OpType |-> t, Length |-> n, Text |-> text]

NewChangeSet(lenBefore) ==
    [operations |-> <<>>, lenBefore |-> lenBefore, lenAfter |-> lenBefore]

Retain(cs, n) ==
    [cs EXCEPT !.operations = Append(@, Operation(OpRetain, n, <<>>))]

Delete(cs, n) ==
    [cs EXCEPT !.operations = Append(@, Operation(OpDelete, n, <<>>)),
               !.lenAfter = @ - n]

Insert(cs, text) ==
    [cs EXCEPT !.operations = Append(@, Operation(OpInsert, 0, text)),
               !.lenAfter = @ + RuneLen(text)]

ChangeSetIsEmpty(cs) == Len(cs.operations) = 0

\* The loop of fuse: ops is what is left to read, fused what was written.
RECURSIVE fuseLoop(_, _)
fuseLoop(ops, fused) ==
    IF ops = <<>> THEN fused
    ELSE LET op == Head(ops)
             n == Len(fused)
         IN IF n > 0 /\ fused[n].OpType = op.OpType
            THEN fuseLoop(Tail(ops),
                   [fused EXCEPT ![n] =
                      IF op.OpType = OpInsert
                      THEN [@ EXCEPT !.Text = @ \o op.Text]
                      ELSE [@ EXCEPT !.Length = @ + op.Length]])
            ELSE fuseLoop(Tail(ops), Append(fused, op))

fuse(cs) ==
    IF Len(cs.operations) <= 1 THEN cs
    ELSE [cs EXCEPT !.operations = fuseLoop(cs.operations, <<>>)]

\* The loop of ChangeSet.Apply over the fused operations: res is the rope
\* result record, pos the cursor.
RECURSIVE applyLoop(_, _, _)
applyLoop(ops, res, pos) ==
    IF ops = <<>> \/ res.panic THEN res
    ELSE LET op == Head(ops) IN
         CASE op.OpType = OpRetain ->
                applyLoop(Tail(ops), res, pos + op.Length)
           [] op.OpType = OpDelete ->
                applyLoop(Tail(ops), RopeDelete(res.text, pos, pos + op.Length), pos)
           [] op.OpType = OpInsert ->
                applyLoop(Tail(ops), RopeInsert(res.text, pos, op.Text),
                          pos + RuneLen(op.Text))

\* ChangeSet.Apply on a non-nil rope: the rope it returns.
ChangeSetApply(cs, r) ==
    IF ChangeSetIsEmpty(cs) THEN RopeOk(r)
    ELSE applyLoop(fuse(cs).operations, RopeOk(r), 0)

\* The loop of ChangeSet.Invert; the answer carries panic when Slice fails.
RECURSIVE invertLoop(_, _, _, _)
invertLoop(ops, original, inverted, pos) ==
    IF ops = <<>> THEN [panic |-> FALSE, cs |-> inverted]
    ELSE LET op == Head(ops) IN
         CASE op.OpType = OpRetain ->
                invertLoop(Tail(ops), original, Retain(inverted, op.Length),
                           pos + op.Length)
           [] op.OpType = OpDelete ->
                LET deletedText == RopeSlice(original, pos, pos + op.Length) IN
                IF deletedText.panic
                THEN [panic |-> TRUE, cs |-> inverted]
                ELSE invertLoop(Tail(ops), original,
                                Insert(inverted, deletedText.text), pos + op.Length)
           [] op.OpType = OpInsert ->
                invertLoop(Tail(ops), original,
                           Delete(inverted, RuneLen(op.Text)), pos)

\* Invert as it would be if the inverse started from the length before.
ChangeSetInvertFromBefore(cs, original) ==
    LET r == invertLoop(cs.operations, original, NewChangeSet(cs.lenBefore), 0)
    IN [r EXCEPT !.cs = fuse(@)]

\* ChangeSet.Invert with a non-nil original rope.
ChangeSetInvert(cs, original) ==
    LET r == invertLoop(cs.operations, original, NewChangeSet(cs.lenAfter), 0)
    IN [r EXCEPT !.cs = fuse(@)]

\* cs.Optimized(): a new changeset for cs.lenBefore (NewChangeSet sets its
\* lenAfter to lenBefore) with a copy of the operations, fused.
Optimized(cs) ==
    fuse([NewChangeSet(cs.lenBefore) EXCEPT !.operations = cs.operations])

\* ----------------------------------------------------------------- compose
\* The changesetComposer: the result under construction and its three
\* cursors.  (The position map compose() builds first is handed to
\* shouldProcessFirst and processSecondOp, neither of which reads it.)
Composer(result, posInFirst, posInSecond, posInResult) ==
    [result |-> result, posInFirst |-> posInFirst,
     posInSecond |-> posInSecond, posInResult |-> posInResult]

\* shouldProcessFirst when the second changeset still has an operation.
shouldProcessFirst(c, firstOp) ==
    IF firstOp.OpType = OpInsert
    THEN c.posInFirst <= c.posInSecond
    ELSE c.posInFirst < c.posInSecond

processFirstOp(c, op) ==
    CASE op.OpType = OpRetain ->
           Composer(Retain(c.result, op.Length), c.posInFirst + op.Length,
                    c.posInSecond + op.Length, c.posInResult + op.Length)
      [] op.OpType = OpDelete ->
           Composer(Delete(c.result, op.Length), c.posInFirst + op.Length,
                    c.posInSecond, c.posInResult)
      [] op.OpType = OpInsert ->
           Composer(Insert(c.result, op.Text), c.posInFirst,
                    c.posInSecond, c.posInResult + RuneLen(op.Text))

processSecondOp(c, op) ==
    CASE op.OpType = OpRetain ->
           Composer(Retain(c.result, op.Length), c.posInFirst + op.Length,
                    c.posInSecond + op.Length, c.posInResult + op.Length)
      [] op.OpType = OpDelete ->
           Composer(Delete(c.result, op.Length), c.posInFirst + op.Length,
                    c.posInSecond + op.Length, c.posInResult)
      [] op.OpType = OpInsert ->
           Composer(Insert(c.result, op.Text), c.posInFirst,
                    c.posInSecond, c.posInResult + RuneLen(op.Text))

\* The loop of compose(): i and j are the 0-based indices of the next
\* operation of the first and of the second changeset.
RECURSIVE composeLoop(_, _, _, _, _)
composeLoop(firstOps, secondOps, i, j, c) ==
    IF ~(i < Len(firstOps) \/ j < Len(secondOps)) THEN c
    ELSE IF i < Len(firstOps)
            /\ (j >= Len(secondOps) \/ shouldProcessFirst(c, At(firstOps, i)))
    THEN composeLoop(firstOps, secondOps, i + 1, j, processFirstOp(c, At(firstOps, i)))
    ELSE composeLoop(firstOps, secondOps, i, j + 1, processSecondOp(c, At(secondOps, j)))

\* ChangeSet.Compose of history.go, with a non-nil other.
ChangeSetCompose(cs, other) ==
    IF ChangeSetIsEmpty(cs)
    THEN IF ChangeSetIsEmpty(other) THEN NewChangeSet(cs.lenBefore)
         ELSE [operations |-> other.operations, lenBefore |-> other.lenBefore,
               lenAfter |-> other.lenAfter]
    ELSE IF ChangeSetIsEmpty(other)
    THEN [operations |-> cs.operations, lenBefore |-> cs.lenBefore,
          lenAfter |-> cs.lenAfter]
    ELSE LET c == composeLoop(cs.operations, other.operations, 0, 0,
                              Composer(NewChangeSet(cs.lenBefore), 0, 0, 0))
         IN [c.result EXCEPT !.lenAfter = c.posInResult]

\* ChangeSet.Transform.
ChangeSetTransform(cs, other) ==
    IF ChangeSetIsEmpty(cs) THEN other
    ELSE IF ChangeSetIsEmpty(other) THEN cs
    ELSE ChangeSetCompose(cs, other)

\* -------------------------------------------------------- position mapping
AssocBefore == "AssocBefore"
AssocAfter == "AssocAfter"
AssocBeforeWord == "AssocBeforeWord"
AssocAfterWord == "AssocAfterWord"
AssocBeforeSticky == "AssocBeforeSticky"
AssocAfterSticky == "AssocAfterSticky"

Assoc ==
    {AssocBefore, AssocAfter, AssocBeforeWord, AssocAfterWord,
     AssocBeforeSticky, AssocAfterSticky}

\* ChangeSet.applyAssociation.
applyAssociation(newPos, assoc, opStart, opLength, targetPos) ==
    CASE assoc = AssocBefore -> newPos
      [] assoc = AssocAfter -> newPos + opLength
      [] assoc \in {AssocBeforeSticky, AssocAfterSticky} ->
           LET offset == targetPos - opStart
           IN newPos + (IF offset > opLength THEN opLength ELSE offset)
      [] OTHER -> newPos

\* The loop of ChangeSet.MapPosition.
RECURSIVE mapPositionLoop(_, _, _, _, _)
mapPositionLoop(ops, pos, assoc, currentPos, newPos) ==
    IF ops = <<>> THEN newPos
    ELSE LET op == Head(ops) IN
         CASE op.OpType = OpRetain ->
                IF currentPos + op.Length > pos
                THEN applyAssociation(newPos + (pos - currentPos), assoc,
                                      currentPos, op.Length, pos)
                ELSE IF currentPos + op.Length >= pos
                THEN newPos + op.Length
                ELSE mapPositionLoop(Tail(ops), pos, assoc,
                                     currentPos + op.Length, newPos + op.Length)
           [] op.OpType = OpDelete ->
                IF currentPos + op.Length > pos
                THEN applyAssociation(newPos, assoc, currentPos, op.Length, pos)
                ELSE IF currentPos + op.Length >= pos
                THEN newPos
                ELSE mapPositionLoop(Tail(ops), pos, assoc,
                                     currentPos + op.Length, newPos)
           [] op.OpType = OpInsert ->
                IF currentPos >= pos
                THEN applyAssociation(newPos, assoc, currentPos,
                                      RuneLen(op.Text), pos)
                ELSE mapPositionLoop(Tail(ops), pos, assoc, currentPos,
                                     newPos + RuneLen(op.Text))

\* ChangeSet.MapPosition.
MapPosition(cs, pos, assoc) ==
    IF pos < 0 \/ pos > cs.lenBefore THEN pos
    ELSE mapPositionLoop(cs.operations, pos, assoc, 0, 0)

\* A Position of a PositionMapper.
Position(pos, assoc, offset) == [Pos |-> pos, Assoc |-> assoc, Offset |-> offset]

\* PositionMapper.applyAfterAssociation.
applyAfterAssociation(oldPos, newPos, currentPos) == newPos

\* PositionMapper.applyAssociation of a mapper made by NewPositionMapper,
\* which has no word boundary detector.
mapperApplyAssociation(position, oldPos, newPos, currentPos) ==
    CASE position.Assoc = AssocBefore -> newPos
      [] position.Assoc = AssocAfter -> applyAfterAssociation(oldPos, newPos, currentPos)
      [] position.Assoc \in {AssocBeforeWord, AssocAfterWord} -> newPos
      [] position.Assoc \in {AssocBeforeSticky, AssocAfterSticky} ->
           newPos + position.Offset

\* The loop of PositionMapper.mapSinglePosition.
RECURSIVE mapSingleLoop(_, _, _, _)
mapSingleLoop(ops, position, pos, newPos) ==
    IF ops = <<>> THEN newPos
    ELSE LET op == Head(ops)
             oldPos == position.Pos
         IN
         CASE op.OpType = OpRetain ->
                IF pos + op.Length >= oldPos
                THEN mapperApplyAssociation(position, oldPos,
                                            newPos + (oldPos - pos), oldPos)
                ELSE mapSingleLoop(Tail(ops), position, pos + op.Length,
                                   newPos + op.Length)
           [] op.OpType = OpDelete ->
                IF pos + op.Length >= oldPos
                THEN mapperApplyAssociation(position, oldPos, newPos, pos)
                ELSE mapSingleLoop(Tail(ops), position, pos + op.Length, newPos)
           [] op.OpType = OpInsert ->
                IF pos >= oldPos
                THEN mapperApplyAssociation(position, oldPos, newPos, pos)
                ELSE mapSingleLoop(Tail(ops), position, pos,
                                   newPos + RuneLen(op.Text))

mapSinglePosition(cs, position) == mapSingleLoop(cs.operations, position, 0, 0)

\* PositionMapper.advanceTo: the new values of *pos and newPos.
RECURSIVE advanceTo(_, _, _, _)
advanceTo(ops, target, pos, newPos) ==
    IF ops = <<>> THEN [pos |-> pos, newPos |-> newPos]
    ELSE LET op == Head(ops) IN
         CASE op.OpType = OpRetain ->
                IF pos + op.Length >= target
                THEN [pos |-> target, newPos |-> newPos + (target - pos)]
                ELSE advanceTo(Tail(ops), target, pos + op.Length,
                               newPos + op.Length)
           [] op.OpType = OpDelete ->
                IF pos + op.Length >= target
                THEN [pos |-> pos + op.Length, newPos |-> newPos]
                ELSE advanceTo(Tail(ops), target, pos + op.Length, newPos)
           [] op.OpType = OpInsert ->
                IF pos >= target
                THEN [pos |-> pos, newPos |-> newPos + RuneLen(op.Text)]
                ELSE advanceTo(Tail(ops), target, pos,
                               newPos + RuneLen(op.Text))

\* The inner loop of mapSorted for one position.  A call of advanceTo that
\* leaves pos where it was is repeated for ever with the same pos: the loop
\* does not end (hang).
RECURSIVE advanceLoop(_, _, _, _)
advanceLoop(cs, oldPos, pos, newPos) ==
    IF ~(pos < oldPos /\ pos < cs.lenBefore) \/ Len(cs.operations) = 0
    THEN [hang |-> FALSE, pos |-> pos, newPos |-> newPos]
    ELSE LET a == advanceTo(cs.operations, oldPos, pos, newPos)
         IN IF a.pos = pos
            THEN [hang |-> TRUE, pos |-> pos, newPos |-> newPos]
            ELSE advanceLoop(cs, oldPos, a.pos, a.newPos)

\* The outer loop of mapSorted: i is the 0-based index of the next position.
RECURSIVE mapSortedLoop(_, _, _, _, _, _)
mapSortedLoop(cs, positions, i, pos, newPos, result) ==
    IF i >= Len(positions) THEN [hang |-> FALSE, result |-> result]
    ELSE LET position == At(positions, i)
             a == advanceLoop(cs, position.Pos, pos, newPos)
         IN IF a.hang THEN [hang |-> TRUE, result |-> result]
            ELSE mapSortedLoop(cs, positions, i + 1, a.pos, a.newPos,
                   Append(result,
                          mapperApplyAssociation(position, position.Pos,
                                                 a.newPos, a.pos)))

mapSorted(cs, positions) == mapSortedLoop(cs, positions, 0, 0, 0, <<>>)

mapUnsorted(cs, positions) ==
    [hang |-> FALSE,
     result |-> [i \in 1..Len(positions) |-> mapSinglePosition(cs, positions[i])]]

isSorted(positions) ==
    \A i \in 1..(Len(positions) - 1) : ~(At(positions, i).Pos < At(positions, i - 1).Pos)

\* PositionMapper.Map.
Map(cs, positions) ==
    IF Len(positions) = 0 THEN [hang |-> FALSE, result |-> <<>>]
    ELSE IF isSorted(positions) THEN mapSorted(cs, positions)
    ELSE mapUnsorted(cs, positions)

\* ------------------------------------------------------------- transaction
\* changeset is a pointer to a ChangeSet; timestamp a reading of the clock.
NewTransaction(changeset, now) ==
    [changeset |-> Ptr(changeset), timestamp |-> now]

\* IsEmpty as it would be with the nil test alone.
TransactionIsEmptyNilOnly(t) == IsNil(t)

\* t is a pointer to a Transaction.
TransactionIsEmpty(t) ==
    IsNil(t) \/ IsNil(Deref(t).changeset)
             \/ ChangeSetIsEmpty(Deref(Deref(t).changeset))

\* Transaction.Apply on a non-nil rope.
TransactionApply(t, r) ==
    IF IsNil(t) \/ IsNil(Deref(t).changeset) THEN RopeOk(r)
    ELSE ChangeSetApply(Deref(Deref(t).changeset), r)

\* Transaction.Invert: a pointer to the inverted transaction.
TransactionInvert(t, original, now) ==
    IF IsNil(t) \/ IsNil(Deref(t).changeset)
    THEN Ptr(NewTransaction(NewChangeSet(0), now))
    ELSE Ptr(NewTransaction(
               ChangeSetInvert(Deref(Deref(t).changeset), original).cs, now))

\* ----------------------------------------------------------------- history
\* A Revision; transaction and inversion are pointers to Transactions.
Revision(parent, lastChild, transaction, inversion, timestamp) ==
    [parent |-> parent, lastChild |-> lastChild, transaction |-> transaction,
     inversion |-> inversion, timestamp |-> timestamp]

\* The fields of a History as one value.
HistoryOf(revs, cur, max) == [revisions |-> revs, current |-> cur, maxSize |-> max]

NewHistory == HistoryOf(<<>>, -1, DefaultMaxSize)

\* The number of revisions prune removes from h (newRoot), 0 when it returns early.
pruneRoot(h) ==
    IF h.maxSize <= 0 THEN 0
    ELSE IF Len(h.revisions) <= h.maxSize THEN 0
    ELSE LET excess == Len(h.revisions) - h.maxSize
         IN IF excess >= Len(h.revisions) THEN Len(h.revisions) - 1 ELSE excess

\* The index update of prune on one surviving revision.
pruneShift(rev, newRoot) ==
    [rev EXCEPT !.parent = IF @ >= 0 THEN @ - newRoot ELSE @,
                !.lastChild = IF @ >= 0 THEN @ - newRoot ELSE @]

\* prune as it would be if it kept the oldest maxSize revisions.
pruneKeepOldest(h) ==
    IF h.maxSize <= 0 THEN h
    ELSE IF Len(h.revisions) <= h.maxSize THEN h
    ELSE HistoryOf(SubSeq(h.revisions, 1, h.maxSize),
                   IF h.current >= h.maxSize THEN h.maxSize - 1 ELSE h.current,
                   h.maxSize)

prune(h) ==
    IF h.maxSize <= 0 THEN h
    ELSE IF Len(h.revisions) <= h.maxSize THEN h
    ELSE LET newRoot == pruneRoot(h)
             kept == SubSeq(h.revisions, newRoot + 1, Len(h.revisions))
             cur == h.current - newRoot
         IN HistoryOf([i \in 1..Len(kept) |-> pruneShift(kept[i], newRoot)],
                      IF cur < -1 THEN -1 ELSE cur,
                      h.maxSize)

SetMaxSizeH(h, size) == prune([h EXCEPT !.maxSize = size])

\* CommitRevision as it would be if a parent kept its first child as lastChild.
commitAppendFirstChild(h, transaction, original, now) ==
    IF TransactionIsEmpty(transaction) THEN h
    ELSE LET inversion == TransactionInvert(transaction, original, now)
             revision == Revision(h.current, -1, transaction, inversion, now)
             appended == Append(h.revisions, revision)
             newIndex == Len(appended) - 1
             linked == IF h.current >= 0 /\ appended[h.current + 1].lastChild < 0
                       THEN [appended EXCEPT ![h.current + 1].lastChild = newIndex]
                       ELSE appended
         IN HistoryOf(linked, newIndex, h.maxSize)

\* CommitRevision as it would be for a linear history: the new revision hangs
\* under the newest revision instead of under current.
commitAppendLinear(h, transaction, original, now) ==
    IF TransactionIsEmpty(transaction) THEN h
    ELSE LET inversion == TransactionInvert(transaction, original, now)
             newIndex == Len(h.revisions)
             revision == Revision(newIndex - 1, -1, transaction, inversion, now)
             appended == Append(h.revisions, revision)
             linked == IF newIndex >= 1
                       THEN [appended EXCEPT ![newIndex].lastChild = newIndex]
                       ELSE appended
         IN HistoryOf(linked, newIndex, h.maxSize)

\* CommitRevision before its final prune: the early return, the append, the
\* parent's lastChild, the move of current.
commitAppend(h, transaction, original, now) ==
    IF TransactionIsEmpty(transaction) THEN h
    ELSE LET inversion == TransactionInvert(transaction, original, now)
             revision == Revision(h.current, -1, transaction, inversion, now)
             appended == Append(h.revisions, revision)
             newIndex == Len(appended) - 1
             linked == IF h.current >= 0 /\ h.current < Len(appended) - 1
                       THEN [appended EXCEPT ![h.current + 1].lastChild = newIndex]
                       ELSE appended
         IN HistoryOf(linked, newIndex, h.maxSize)

CommitRevisionH(h, transaction, original, now) ==
    IF TransactionIsEmpty(transaction) THEN h
    ELSE prune(commitAppend(h, transaction, original, now))

CanUndoH(h) == h.current >= 0

CanRedoH(h) ==
    IF h.current = -1 THEN Len(h.revisions) > 0
    ELSE IF h.current >= Len(h.revisions) THEN FALSE
    ELSE At(h.revisions, h.current).lastChild >= 0

AtRootH(h) == h.current < 0

AtTipH(h) ==
    IF h.current = -1 THEN Len(h.revisions) = 0
    ELSE IF h.current >= Len(h.revisions) THEN TRUE
    ELSE At(h.revisions, h.current).lastChild < 0

\* The answer of a call that returns a *Transaction: the history after it, the
\* pointer returned, and whether the call panicked (index out of range).
Answer(h, ret) == [h |-> h, ret |-> ret, panic |-> FALSE]
Panicked(h) == [h |-> h, ret |-> Nil, panic |-> TRUE]

\* Undo as it would be on a stack: current steps to the previous index.
UndoHStack(h) ==
    IF h.current < 0 THEN Answer(h, Nil)
    ELSE Answer([h EXCEPT !.current = h.current - 1],
                At(h.revisions, h.current).inversion)

UndoH(h) ==
    IF h.current < 0 THEN Answer(h, Nil)
    ELSE LET cur == At(h.revisions, h.current)
         IN Answer([h EXCEPT !.current = cur.parent], cur.inversion)

RedoH(h) ==
    IF h.current = -1
    THEN IF Len(h.revisions) = 0 THEN Answer(h, Nil)
         ELSE Answer([h EXCEPT !.current = 0], At(h.revisions, 0).transaction)
    ELSE IF h.current >= Len(h.revisions) THEN Answer(h, Nil)
    ELSE IF h.current < 0 THEN Panicked(h)
    ELSE LET cur == At(h.revisions, h.current)
         IN IF cur.lastChild < 0 THEN Answer(h, Nil)
            ELSE Answer([h EXCEPT !.current = cur.lastChild],
                        At(h.revisions, cur.lastChild).transaction)

ClearH(h) == HistoryOf(<<>>, -1, h.maxSize)

\* The loop of lowestCommonAncestor: va and vb are the visited sets.
RECURSIVE lcaLoop(_, _, _, _, _)
lcaLoop(h, a, b, va, vb) ==
    LET visitedA == va \cup {a}
        visitedB == vb \cup {b}
    IN IF b \in visitedA THEN b
       ELSE IF a \in visitedB THEN a
       ELSE LET a2 == IF a >= 0 THEN At(h.revisions, a).parent ELSE a
                b2 == IF b >= 0 THEN At(h.revisions, b).parent ELSE b
            IN IF a2 < 0 /\ b2 < 0 THEN -1
               ELSE lcaLoop(h, a2, b2, visitedA, visitedB)

lowestCommonAncestor(h, a, b) ==
    IF a < 0 \/ b < 0 THEN -1 ELSE lcaLoop(h, a, b, {}, {})

GotoRevisionH(h, index) ==
    IF index < -1 \/ index >= Len(h.revisions) THEN Answer(h, Nil)
    ELSE IF index = h.current THEN Answer(h, Nil)
    ELSE IF index >= 0
         THEN Answer([h EXCEPT !.current = index], At(h.revisions, index).transaction)
         ELSE Answer([h EXCEPT !.current = index], Nil)

EarlierH(h, steps) == IF steps <= 0 THEN Answer(h, Nil) ELSE UndoH(h)

LaterH(h, steps) == IF steps <= 0 THEN Answer(h, Nil) ELSE RedoH(h)

\* ------------------------------------------------------------------ client
\* The Client of the collaborative editor: a three-state machine between the
\* local operations and the server.
StateSynchronized == "StateSynchronized"
StateAwaitingConfirm == "StateAwaitingConfirm"
StateAwaitingWithBuffer == "StateAwaitingWithBuffer"

\* An operation of the client: the local edits it carries, in order, and the
\* number of remote operations it has been transformed against.
ClientOp(ids, over) == [ids |-> ids, over |-> over]

\* compose(a, b): a, then b.
OpCompose(a, b) == ClientOp(a.ids \o b.ids, a.over)

\* A pointer to the operation behind p transformed against a remote one.
OpTransform(p) ==
    IF IsNil(p) THEN Nil ELSE Ptr([Deref(p) EXCEPT !.over = @ + 1])

\* The Client as one value; sent is what it hands to the server in the step.
ClientOf(st, o, b) == [state |-> st, outstanding |-> o, buffer |-> b]

Sending(c, sent) == [client |-> c, sent |-> sent]

\* ApplyClient as it would be if a new local operation replaced the buffer.
ApplyClientOverwrite(c, op) ==
    CASE c.state = StateSynchronized ->
           Sending(ClientOf(StateAwaitingConfirm, Ptr(op), Nil), <<op>>)
      [] c.state = StateAwaitingConfirm ->
           Sending(ClientOf(StateAwaitingWithBuffer, c.outstanding, Ptr(op)), <<>>)
      [] c.state = StateAwaitingWithBuffer ->
           Sending(ClientOf(StateAwaitingWithBuffer, c.outstanding, Ptr(op)), <<>>)

\* ApplyClient(op): a local operation.
ApplyClient(c, op) ==
    CASE c.state = StateSynchronized ->
           Sending(ClientOf(StateAwaitingConfirm, Ptr(op), Nil), <<op>>)
      [] c.state = StateAwaitingConfirm ->
           Sending(ClientOf(StateAwaitingWithBuffer, c.outstanding, Ptr(op)), <<>>)
      [] c.state = StateAwaitingWithBuffer ->
           Sending(ClientOf(StateAwaitingWithBuffer, c.outstanding,
                            Ptr(OpCompose(Deref(c.buffer), op))), <<>>)

\* ServerAck as it would be if the acknowledgement dropped the buffer.
ServerAckDropsBuffer(c) ==
    CASE c.state = StateSynchronized -> Sending(c, <<>>)
      [] c.state = StateAwaitingConfirm ->
           Sending(ClientOf(StateSynchronized, Nil, Nil), <<>>)
      [] c.state = StateAwaitingWithBuffer ->
           Sending(ClientOf(StateSynchronized, Nil, Nil), <<>>)

\* ServerAck(): the server acknowledged the outstanding operation.
ServerAck(c) ==
    CASE c.state = StateSynchronized -> Sending(c, <<>>)
      [] c.state = StateAwaitingConfirm ->
           Sending(ClientOf(StateSynchronized, Nil, Nil), <<>>)
      [] c.state = StateAwaitingWithBuffer ->
           Sending(ClientOf(StateAwaitingConfirm, c.buffer, Nil), <<Deref(c.buffer)>>)

\* ApplyServer(revision, op): a remote operation is transformed against the
\* outstanding operation and the buffer, which are transformed against it.
ApplyServer(c) ==
    Sending(ClientOf(c.state, OpTransform(c.outstanding), OpTransform(c.buffer)), <<>>)

\* The remote operation of revision n, and the operations of this client it
\* has been transformed against, in order.
RemoteOperation(n, against) == [revision |-> n, against |-> against]

\* The remote operation r transformed against the operation behind p.
TransformRemote(r, p) ==
    IF IsNil(p) THEN r
    ELSE RemoteOperation(r.revision, Append(r.against, Deref(p).ids))

\* What ApplyServer(revision, op) applies to the document: op transformed
\* against the outstanding operation, and the result against the buffer.
ServerApplied(c, op) ==
    TransformRemote(TransformRemote(op, c.outstanding), c.buffer)

\* -------------------------------------------------------------- rope tree
\* A node of the rope: a leaf with its text, or an internal node with its two
\* subtrees and the cached length of the left one.
LeafNode(text) == [leaf |-> TRUE, text |-> text]
InternalNode(left, right, length) ==
    [leaf |-> FALSE, left |-> left, right |-> right, length |-> length]

\* node.Length(): the characters under the node.
RECURSIVE NodeLength(_)
NodeLength(node) ==
    IF node.leaf THEN Len(node.text) ELSE node.length + NodeLength(node.right)

\* The text under the node, leaf after leaf from left to right.
RECURSIVE NodeString(_)
NodeString(node) ==
    IF node.leaf THEN node.text
    ELSE NodeString(node.left) \o NodeString(node.right)

\* A Rope: the root and the cached length in characters.
RopeOf(root, length) == [root |-> root, length |-> length]
New(text) == RopeOf(LeafNode(text), Len(text))
Empty == New(<<>>)
Clone(r) == r
RopeLength(r) == r.length
RopeString(r) == NodeString(r.root)

\* The first n characters of text, and the text after them.
Prefix(text, n) == SubSeq(text, 1, Min2(n, Len(text)))
Suffix(text, n) == SubSeq(text, Min2(n, Len(text)) + 1, Len(text))

\* extractSuffixZeroAlloc: a pointer to a node (Nil for nothing).
RECURSIVE extractSuffixZeroAlloc(_, _)
extractSuffixZeroAlloc(node, start) ==
    IF node.leaf
    THEN IF start = 0 THEN Ptr(node)
         ELSE IF start >= NodeLength(node) THEN Nil
         ELSE Ptr(LeafNode(Suffix(node.text, start)))
    ELSE IF start < node.length
         THEN LET newLeft == extractSuffixZeroAlloc(node.left, start)
              IN IF IsNil(newLeft) THEN Ptr(node.right)
                 ELSE Ptr(InternalNode(Deref(newLeft), node.right,
                                       NodeLength(Deref(newLeft))))
         ELSE extractSuffixZeroAlloc(node.right, start - node.length)

\* extractPrefixZeroAlloc: a pointer to a node (Nil for nothing).
RECURSIVE extractPrefixZeroAlloc(_, _)
extractPrefixZeroAlloc(node, end) ==
    IF node.leaf
    THEN IF end >= NodeLength(node) THEN Ptr(node)
         ELSE IF end = 0 THEN Nil
         ELSE Ptr(LeafNode(Prefix(node.text, end)))
    ELSE IF end <= node.length
         THEN extractPrefixZeroAlloc(node.left, end)
         ELSE LET newRight == extractPrefixZeroAlloc(node.right, end - node.length)
              IN IF IsNil(newRight) THEN Ptr(node.left)
                 ELSE Ptr(InternalNode(node.left, Deref(newRight),
                                       NodeLength(node.left)))

\* deleteMergeZeroAlloc: a pointer to the node it returns.
deleteMergeZeroAlloc(left, leftStart, right, rightEnd) ==
    LET leftPart == extractSuffixZeroAlloc(left, leftStart)
        rightPart == extractPrefixZeroAlloc(right, rightEnd)
    IN IF IsNil(leftPart) \/ NodeLength(Deref(leftPart)) = 0 THEN rightPart
       ELSE IF IsNil(rightPart) \/ NodeLength(Deref(rightPart)) = 0 THEN leftPart
       ELSE Ptr(InternalNode(Deref(leftPart), Deref(rightPart),
                             NodeLength(Deref(leftPart))))

\* deleteNodeZeroAlloc: a pointer to the node it returns.
RECURSIVE deleteNodeZeroAlloc(_, _, _)
deleteNodeZeroAlloc(node, start, end) ==
    IF node.leaf
    THEN Ptr(LeafNode(Prefix(node.text, start) \o Suffix(node.text, end)))
    ELSE IF end <= node.length
         THEN LET newLeft == Deref(deleteNodeZeroAlloc(node.left, start, end))
              IN IF NodeLength(newLeft) = 0 THEN Ptr(node.right)
                 ELSE Ptr(InternalNode(newLeft, node.right, NodeLength(newLeft)))
    ELSE IF start >= node.length
         THEN LET newRight == Deref(deleteNodeZeroAlloc(node.right,
                                        start - node.length, end - node.length))
              IN IF NodeLength(newRight) = 0 THEN Ptr(node.left)
                 ELSE Ptr(InternalNode(node.left, newRight, NodeLength(node.left)))
    ELSE deleteMergeZeroAlloc(node.left, start, node.right, end - node.length)

\* Rope.DeleteZeroAlloc on a non-nil rope: panic, or a pointer to the root of
\* the rope it returns (Nil when deleteNodeZeroAlloc returned no node) and
\* the length it caches.
DeleteZeroAlloc(r, start, end) ==
    IF start < 0 \/ end > r.length \/ start > end
    THEN [panic |-> TRUE]
    ELSE IF start = end
    THEN [panic |-> FALSE, root |-> Ptr(r.root), length |-> r.length]
    ELSE [panic |-> FALSE,
          root |-> deleteNodeZeroAlloc(r.root, start, end),
          length |-> r.length - (end - start)]

\* Rope.Split(pos): the two ropes, or the error of errSplitOutOfBounds.
Split(r, pos) ==
    IF pos < 0 \/ pos > RopeLength(r)
    THEN [err |-> TRUE]
    ELSE [err |-> FALSE,
          left |-> New(Prefix(RopeString(r), pos)),
          right |-> New(Suffix(RopeString(r), pos))]

\* SplitOff as it would be without the check for a position past the end.
SplitOffUnclamped(r, pos) ==
    IF pos <= 0
    THEN [err |-> FALSE, left |-> Empty, right |-> Clone(r)]
    ELSE Split(r, pos)

\* Rope.SplitOff(pos).
SplitOff(r, pos) ==
    IF pos <= 0
    THEN [err |-> FALSE, left |-> Empty, right |-> Clone(r)]
    ELSE IF pos >= RopeLength(r)
    THEN [err |-> FALSE, left |-> Clone(r), right |-> Empty]
    ELSE Split(r, pos)

\* Rope.AppendRope(other) on non-nil ropes.
AppendRope(r, other) ==
    IF RopeLength(other) = 0 THEN r
    ELSE IF RopeLength(r) = 0 THEN Clone(other)
    ELSE RopeOf(InternalNode(r.root, other.root, NodeLength(r.root)),
                r.length + other.length)

\* ------------------------------------------------------------------- hash
\* The bytes of the text: every character of the model is one byte of ASCII.
ByteOf(ch) ==
    CASE ch = "a" -> 97 [] ch = "b" -> 98 [] ch = "c" -> 99
      [] ch = "d" -> 100 [] ch = "e" -> 101 [] OTHER -> 10

\* IterBytes: the bytes of the leaves, leaf after leaf from left to right.
RECURSIVE IterBytes(_)
IterBytes(node) ==
    IF node.leaf THEN [i \in 1..Len(node.text) |-> ByteOf(node.text[i])]
    ELSE IterBytes(node.left) \o IterBytes(node.right)

\* A hash value is kept as 16-bit limbs, the lowest first.
RECURSIVE Xor(_, _, _)
Xor(a, b, bits) ==
    IF bits = 0 THEN 0
    ELSE ((a + b) % 2) + 2 * Xor(a \div 2, b \div 2, bits - 1)

\* fnv.New32a() and fnv.New64a(): the offset basis, and the prime as
\* 2^(16 * shift + 8) + low.
New32a == [offset |-> <<40389, 33052>>, shift |-> 1, low |-> 403]
New64a == [offset |-> <<8997, 33826, 40164, 52210>>, shift |-> 2, low |-> 435]

\* h times the prime of f, modulo the width of h; i is the limb to write.
RECURSIVE fnvMultiply(_, _, _, _)
fnvMultiply(f, h, i, carry) ==
    IF i > Len(h) THEN <<>>
    ELSE LET j == i - f.shift
             fromLow == IF j >= 1 THEN (h[j] % 256) * 256 ELSE 0
             fromHigh == IF j - 1 >= 1 THEN h[j - 1] \div 256 ELSE 0
             sum == h[i] * f.low + fromLow + fromHigh + carry
         IN <<sum % 65536>> \o fnvMultiply(f, h, i + 1, sum \div 65536)

\* hasher.Write([]byte{b}) of FNV-1a: xor the byte in, multiply by the prime.
fnvWrite(f, h, b) ==
    fnvMultiply(f, [h EXCEPT ![1] = Xor(@, b, 16)], 1, 0)

RECURSIVE fnvSum(_, _, _)
fnvSum(f, h, bytes) ==
    IF bytes = <<>> THEN h
    ELSE fnvSum(f, fnvWrite(f, h, Head(bytes)), Tail(bytes))

\* HashCode32 as it would be if every leaf were hashed on its own and the
\* hashes of the leaves were combined.
RECURSIVE nodeHashPerLeaf(_)
nodeHashPerLeaf(node) ==
    IF node.leaf THEN fnvSum(New32a, New32a.offset, IterBytes(node))
    ELSE LET l == nodeHashPerLeaf(node.left)
             r == nodeHashPerLeaf(node.right)
         IN [i \in 1..Len(l) |-> Xor(l[i], r[i], 16)]

HashCode32PerLeaf(r) == nodeHashPerLeaf(r.root)

\* Rope.HashCode32 and Rope.HashCode64.
HashCode32(r) == fnvSum(New32a, New32a.offset, IterBytes(r.root))
HashCode64(r) == fnvSum(New64a, New64a.offset, IterBytes(r.root))

\* ------------------------------------------------------------------ lines
\* What a call gives back: a value, an error handed to the caller, or a panic.
Returned(val) == [panic |-> FALSE, err |-> FALSE, val |-> val]
ErrOutOfBounds == [panic |-> FALSE, err |-> TRUE]
Panic == [panic |-> TRUE, err |-> FALSE]

NewLine == "\n"

\* strings.Count(content, "\n")
RECURSIVE CountNewLines(_)
CountNewLines(content) ==
    IF content = <<>> THEN 0
    ELSE (IF Head(content) = NewLine THEN 1 ELSE 0) + CountNewLines(Tail(content))

\* Rope.LineCount
LineCount(r) ==
    IF r.length = 0 THEN 0
    ELSE LET content == RopeString(r)
             count == CountNewLines(content)
         IN IF content[Len(content)] # NewLine THEN count + 1 ELSE count

\* The loop of LineStart: the iterator is on character i (0-based) after
\* its Next(), and its Position() is then i + 1.
RECURSIVE lineStartLoop(_, _, _, _)
lineStartLoop(content, i, currentLine, lineNum) ==
    IF i >= Len(content) THEN Len(content)
    ELSE IF At(content, i) = NewLine
         THEN IF currentLine + 1 = lineNum THEN i + 1
              ELSE lineStartLoop(content, i + 1, currentLine + 1, lineNum)
         ELSE lineStartLoop(content, i + 1, currentLine, lineNum)

\* Rope.LineStart
LineStart(r, lineNum) ==
    IF lineNum < 0 \/ lineNum >= LineCount(r) THEN Panic
    ELSE IF lineNum = 0 THEN Returned(0)
    ELSE Returned(lineStartLoop(RopeString(r), 0, 0, lineNum))

\* The loop of LineEnd from character i.
RECURSIVE lineEndLoop(_, _)
lineEndLoop(content, i) ==
    IF i >= Len(content) THEN Len(content)
    ELSE IF At(content, i) = NewLine THEN i
    ELSE lineEndLoop(content, i + 1)

\* Rope.LineEnd
LineEnd(r, lineNum) ==
    IF lineNum < 0 \/ lineNum >= LineCount(r) THEN ErrOutOfBounds
    ELSE LET start == LineStart(r, lineNum)
         IN IF start.panic \/ start.err THEN start
            ELSE Returned(lineEndLoop(RopeString(r), start.val))

\* Rope.LineLength: the error of LineEnd is dropped, its end is then 0.
LineLength(r, lineNum) ==
    LET start == LineStart(r, lineNum)
        end == LineEnd(r, lineNum)
    IN IF start.panic \/ start.err THEN start
       ELSE IF end.panic THEN end
       ELSE Returned((IF end.err THEN 0 ELSE end.val) - start.val)

\* Rope.Line
Line(r, lineNum) ==
    IF lineNum < 0 \/ lineNum >= LineCount(r) THEN ErrOutOfBounds
    ELSE LET start == LineStart(r, lineNum)
             end == LineEnd(r, lineNum)
         IN IF start.panic \/ start.err THEN start
            ELSE IF end.panic \/ end.err THEN end
            ELSE LET s == RopeSlice(RopeString(r), start.val, end.val)
                 IN IF s.panic THEN ErrOutOfBounds ELSE Returned(s.text)

\* Rope.LineWithEnding
LineWithEnding(r, lineNum) ==
    IF lineNum < 0 \/ lineNum >= LineCount(r) THEN ErrOutOfBounds
    ELSE LET start == LineStart(r, lineNum)
             length == LineLength(r, lineNum)
         IN IF start.panic \/ start.err THEN start
            ELSE IF length.panic \/ length.err THEN length
            ELSE LET s == RopeSlice(RopeString(r), start.val, start.val + length.val)
                 IN IF s.panic THEN ErrOutOfBounds ELSE Returned(s.text)

\* The loop of LineAtChar: i counts the characters read.
RECURSIVE lineAtCharLoop(_, _, _, _)
lineAtCharLoop(content, i, pos, lineNum) ==
    IF ~(i <= pos /\ i < Len(content)) THEN lineNum
    ELSE lineAtCharLoop(content, i + 1, pos,
                        IF At(content, i) = NewLine THEN lineNum + 1 ELSE lineNum)

\* Rope.LineAtChar
LineAtChar(r, pos) ==
    IF pos < 0 \/ pos > RopeLength(r) THEN Panic
    ELSE IF pos = 0 THEN Returned(0)
    ELSE Returned(lineAtCharLoop(RopeString(r), 0, pos, 0))

\* Rope.ColumnAtChar
ColumnAtChar(r, pos) ==
    IF pos < 0 \/ pos > RopeLength(r) THEN Panic
    ELSE LET line == LineAtChar(r, pos)
             lineStart == IF line.panic THEN line ELSE LineStart(r, line.val)
         IN IF lineStart.panic THEN Panic ELSE Returned(pos - lineStart.val)

\* Rope.Insert and Rope.Replace with an error result: the text of the new rope.
InsertErr(r, pos, text) ==
    LET res == RopeInsert(RopeString(r), pos, text)
    IN IF res.panic THEN ErrOutOfBounds ELSE Returned(res.text)

ReplaceErr(r, start, end, text) ==
    LET cut == RopeDelete(RopeString(r), start, end)
    IN IF cut.panic THEN ErrOutOfBounds
       ELSE InsertErr(New(cut.text), start, text)

\* Rope.InsertLine
InsertLine(r, lineNum, text) ==
    LET pos == LineStart(r, lineNum)
    IN IF pos.panic \/ pos.err THEN pos ELSE InsertErr(r, pos.val, text)

\* Rope.ReplaceLine
ReplaceLine(r, lineNum, text) ==
    LET start == LineStart(r, lineNum)
        length == LineLength(r, lineNum)
    IN IF start.panic \/ start.err THEN start
       ELSE IF length.panic \/ length.err THEN length
       ELSE ReplaceErr(r, start.val, start.val + length.val, text)

\* Rope.PositionAtLineCol
PositionAtLineCol(r, lineNum, colNum) ==
    LET lineStart == LineStart(r, lineNum)
        lineEnd == LineEnd(r, lineNum)
    IN IF lineStart.panic \/ lineStart.err THEN lineStart
       ELSE IF lineEnd.panic THEN lineEnd
       ELSE LET e == IF lineEnd.err THEN 0 ELSE lineEnd.val
            IN IF colNum < 0 \/ colNum > e - lineStart.val THEN Panic
               ELSE Returned(lineStart.val + colNum)

\* --------------------------------------------------------- lines iterator
LinesIteratorOf(lineNum, totalLines) == [lineNum |-> lineNum, totalLines |-> totalLines]

\* Rope.LinesIterator
LinesIterator(r) == LinesIteratorOf(0, LineCount(r))

\* Next as it would be if it wrapped around after the last line.
LinesIteratorNextWrapping(it) ==
    LET n == IF it.lineNum + 1 > it.totalLines THEN 0 ELSE it.lineNum + 1
    IN [it |-> [it EXCEPT !.lineNum = n], more |-> n < it.totalLines]

\* LinesIterator.Next: the iterator after the call and what it returns.
LinesIteratorNext(it) ==
    [it |-> [it EXCEPT !.lineNum = @ + 1], more |-> it.lineNum + 1 < it.totalLines]

\* LinesIterator.Current
LinesIteratorCurrent(it, r) ==
    IF it.lineNum < 0 \/ it.lineNum >= it.totalLines THEN ErrOutOfBounds
    ELSE Line(r, it.lineNum)

\* LinesIterator.CurrentWithEnding
LinesIteratorCurrentWithEnding(it, r) ==
    IF it.lineNum < 0 \/ it.lineNum >= it.totalLines THEN ErrOutOfBounds
    ELSE LineWithEnding(r, it.lineNum)

\* LinesIterator.Reset
LinesIteratorReset(it) == [it EXCEPT !.lineNum = -1]

\* The loop `for it.Next() { line, err := it.Current(); ...; append }` of
\* ToSlice and IterLines: the iterator when the loop ends, the lines
\* collected, and whether Current() ended it with an error or a panic.
RECURSIVE linesLoop(_, _, _)
linesLoop(it, r, lines) ==
    LET n == LinesIteratorNext(it)
        cur == LinesIteratorCurrent(n.it, r)
    IN IF ~n.more THEN [it |-> n.it, lines |-> lines, panic |-> FALSE, err |-> FALSE]
       ELSE IF cur.panic \/ cur.err
            THEN [it |-> n.it, lines |-> lines, panic |-> cur.panic, err |-> cur.err]
       ELSE linesLoop(n.it, r, Append(lines, cur.val))

\* LinesIterator.ToSlice: the iterator after the call and what it returns.
ToSlice(it, r) ==
    LET end == linesLoop(LinesIteratorReset(it), r, <<>>)
    IN [it |-> end.it,
        res |-> IF end.panic THEN Panic
                ELSE IF end.err THEN ErrOutOfBounds
                ELSE Returned(end.lines)]

\* IterLines(r): the lines handed to yield, by a consumer that takes them all.
IterLines(r) ==
    LET end == linesLoop(LinesIterator(r), r, <<>>)
    IN IF end.panic THEN Panic ELSE Returned(end.lines)

\* -------------------------------------------------------------- selection
\* A Range and its cursor, the head.
RangeOf(anchor, head) == [Anchor |-> anchor, Head |-> head]
Point(pos) == RangeOf(pos, pos)
Cursor(r) == r.Head

SelectionOf(ranges, primaryIndex) == [ranges |-> ranges, primaryIndex |-> primaryIndex]

NewSelection(ranges) ==
    SelectionOf(IF Len(ranges) = 0 THEN <<Point(0)>> ELSE ranges, 0)

NewSelectionWithPrimary(ranges, primaryIndex) ==
    LET rs == IF Len(ranges) = 0 THEN <<Point(0)>> ELSE ranges
    IN SelectionOf(rs, IF primaryIndex < 0 \/ primaryIndex >= Len(rs)
                       THEN 0 ELSE primaryIndex)

PrimaryIndex(s) == s.primaryIndex
SelectionLen(s) == Len(s.ranges)

SelectionAdd(s, r) == [s EXCEPT !.ranges = Append(@, r)]

\* SetPrimary as it would be without the check of the index.
SetPrimaryUnchecked(s, index) == [s EXCEPT !.primaryIndex = index]

SetPrimary(s, index) ==
    IF index >= 0 /\ index < Len(s.ranges)
    THEN [s EXCEPT !.primaryIndex = index]
    ELSE s

GetPositions(s) == [i \in 1..Len(s.ranges) |-> Cursor(s.ranges[i])]
GetAssociations(s) == [i \in 1..Len(s.ranges) |-> AssocBefore]

FromPositions(s, positions) ==
    IF Len(positions) = 0 THEN NewSelection(<<Point(0)>>)
    ELSE SelectionOf([i \in 1..Len(positions) |-> Point(positions[i])],
                     IF s.primaryIndex >= Len(positions) THEN 0
                     ELSE s.primaryIndex)

\* MapPositionsOptimized(cs, positions, assocs): the PositionMapper with
\* every position added under its association.
MapPositionsOptimized(cs, positions, assocs) ==
    Map(cs, [i \in 1..Len(positions) |-> Position(positions[i], assocs[i], 0)])

\* Selection.MapPositions on a non-nil selection: hang when the mapper does
\* not return.
SelectionMapPositions(s, cs) ==
    IF Len(s.ranges) = 0 THEN [hang |-> FALSE, selection |-> s]
    ELSE LET mapped == MapPositionsOptimized(cs, GetPositions(s), GetAssociations(s))
         IN IF mapped.hang THEN [hang |-> TRUE]
            ELSE [hang |-> FALSE, selection |-> FromPositions(s, mapped.result)]

\* ------------------------------------------------------ rope nodes, shared
\* The nodes of all ropes live in one store: heap[a] is the node a pointer a
\* refers to, and 0 is the nil node.  A leaf holds text; an internal node
\* holds pointers to its two subtrees and the cached length (characters) and
\* size (bytes) of the left one.  A Rope holds a pointer to its root and the
\* cached length and size of its text.  Every function answers with the
\* store after the call and the pointer or Rope it returns.

\* len(text): the bytes of the UTF-8 encoding.
RECURSIVE Utf8Len(_)
Utf8Len(text) ==
    IF text = <<>> THEN 0
    ELSE (IF Head(text) = Astral THEN 4 ELSE 1) + Utf8Len(Tail(text))

\* AcquireLeaf(), AcquireInternal(): a node no rope refers to, zeroed.
AcquireLeaf(h) ==
    [heap |-> Append(h, [leaf |-> TRUE, text |-> <<>>]), node |-> Len(h) + 1]
AcquireInternal(h) ==
    [heap |-> Append(h, [leaf |-> FALSE, left |-> 0, right |-> 0,
                         length |-> 0, size |-> 0]),
     node |-> Len(h) + 1]

\* newLeaf.text = text
SetLeaf(h, a, text) == [h EXCEPT ![a].text = text]

\* newNode.left, newNode.right, newNode.length, newNode.size = ...
SetInternal(h, a, left, right, length, size) ==
    [h EXCEPT ![a].left = left, ![a].right = right,
              ![a].length = length, ![a].size = size]

\* node.Length() and node.Size()
RECURSIVE Length(_, _)
Length(h, a) ==
    IF h[a].leaf THEN RuneLen(h[a].text) ELSE h[a].length + Length(h, h[a].right)

RECURSIVE Size(_, _)
Size(h, a) ==
    IF h[a].leaf THEN Utf8Len(h[a].text) ELSE h[a].size + Size(h, h[a].right)

\* The text under node a.
RECURSIVE String(_, _)
String(h, a) ==
    IF h[a].leaf THEN h[a].text ELSE String(h, h[a].left) \o String(h, h[a].right)

\* The nodes reachable from node a.
RECURSIVE Reachable(_, _)
Reachable(h, a) ==
    IF h[a].leaf THEN {a}
    ELSE {a} \cup Reachable(h, h[a].left) \cup Reachable(h, h[a].right)

SharedRope(root, length, size) == [root |-> root, length |-> length, size |-> size]

\* New(text): a rope of one leaf.
NewShared(h, text) ==
    LET leaf == AcquireLeaf(h)
    IN [heap |-> SetLeaf(leaf.heap, leaf.node, text),
        rope |-> SharedRope(leaf.node, RuneLen(text), Utf8Len(text))]

\* The rope of a new internal node over left and right, for r with text added.
Joined(h, n, left, right, length, size, r, text) ==
    [heap |-> SetInternal(h, n, left, right, length, size),
     rope |-> SharedRope(n, r.length + RuneLen(text), r.size + Utf8Len(text))]

\* AppendOptimized as it would be if it wrote the text into the leaf of a
\* one-leaf rope instead of making a node.
AppendOptimizedInPlace(h, r, text) ==
    IF text = <<>> THEN [heap |-> h, rope |-> r]
    ELSE IF r.length = 0 THEN NewShared(h, text)
    ELSE IF h[r.root].leaf
    THEN [heap |-> SetLeaf(h, r.root, h[r.root].text \o text),
          rope |-> SharedRope(r.root, r.length + RuneLen(text),
                              r.size + Utf8Len(text))]
    ELSE LET textRope == NewShared(h, text)
             n == AcquireInternal(textRope.heap)
         IN Joined(n.heap, n.node, r.root, textRope.rope.root,
                   r.length, r.size, r, text)

\* Rope.AppendOptimized on a non-nil rope.
AppendOptimized(h, r, text) ==
    IF text = <<>> THEN [heap |-> h, rope |-> r]
    ELSE IF r.length = 0 THEN NewShared(h, text)
    ELSE LET textRope == NewShared(h, text)
             n == AcquireInternal(textRope.heap)
         IN Joined(n.heap, n.node, r.root, textRope.rope.root,
                   r.length, r.size, r, text)

\* Rope.PrependOptimized on a non-nil rope.
PrependOptimized(h, r, text) ==
    IF text = <<>> THEN [heap |-> h, rope |-> r]
    ELSE IF r.length = 0 THEN NewShared(h, text)
    ELSE LET textRope == NewShared(h, text)
             n == AcquireInternal(textRope.heap)
         IN Joined(n.heap, n.node, textRope.rope.root, r.root,
                   textRope.rope.length, textRope.rope.size, r, text)

\* Rope.AppendZeroAlloc on a non-nil rope.
AppendZeroAlloc(h, r, text) ==
    IF text = <<>> THEN [heap |-> h, rope |-> r]
    ELSE IF r.length = 0 THEN NewShared(h, text)
    ELSE LET textRope == NewShared(h, text)
             newNode == AcquireInternal(textRope.heap)
         IN Joined(newNode.heap, newNode.node, r.root, textRope.rope.root,
                   r.length, r.size, r, text)

\* Rope.PrependZeroAlloc on a non-nil rope.
PrependZeroAlloc(h, r, text) ==
    IF text = <<>> THEN [heap |-> h, rope |-> r]
    ELSE IF r.length = 0 THEN NewShared(h, text)
    ELSE LET textRope == NewShared(h, text)
             newNode == AcquireInternal(textRope.heap)
         IN Joined(newNode.heap, newNode.node, textRope.rope.root, r.root,
                   textRope.rope.length, textRope.rope.size, r, text)

\* A new internal node over left and right with the summary of left.
\* (newNode.length = left.Length(); newNode.size = left.Size())
Over(h, left, right) ==
    LET newNode == AcquireInternal(h)
    IN [heap |-> SetInternal(newNode.heap, newNode.node, left, right,
                             Length(h, left), Size(h, left)),
        node |-> newNode.node]

\* A new leaf holding text.
LeafOf(h, text) ==
    LET newLeaf == AcquireLeaf(h)
    IN [heap |-> SetLeaf(newLeaf.heap, newLeaf.node, text), node |-> newLeaf.node]

\* insertNodeZeroAlloc
RECURSIVE insertNodeZeroAlloc(_, _, _, _)
insertNodeZeroAlloc(h, node, pos, text) ==
    IF h[node].leaf
    THEN LeafOf(h, Prefix(h[node].text, pos) \o text \o Suffix(h[node].text, pos))
    ELSE IF pos <= h[node].length
    THEN LET newLeft == insertNodeZeroAlloc(h, h[node].left, pos, text)
         IN Over(newLeft.heap, newLeft.node, h[node].right)
    ELSE LET newRight == insertNodeZeroAlloc(h, h[node].right,
                                             pos - h[node].length, text)
         IN Over(newRight.heap, h[node].left, newRight.node)

\* Rope.InsertZeroAlloc on a non-nil rope: panic, or the store and the rope.
InsertZeroAlloc(h, r, pos, text) ==
    IF pos < 0 \/ pos > r.length THEN [panic |-> TRUE]
    ELSE [panic |-> FALSE] @@
         (IF text = <<>> THEN [heap |-> h, rope |-> r]
          ELSE IF pos = 0 THEN PrependZeroAlloc(h, r, text)
          ELSE IF pos = r.length THEN AppendZeroAlloc(h, r, text)
          ELSE LET newRoot == insertNodeZeroAlloc(h, r.root, pos, text)
               IN [heap |-> newRoot.heap,
                   rope |-> SharedRope(newRoot.node, r.length + RuneLen(text),
                                       r.size + Utf8Len(text))])

\* extractSuffixZeroAlloc over the store (node 0 for nil).
RECURSIVE extractSuffixShared(_, _, _)
extractSuffixShared(h, node, start) ==
    IF h[node].leaf
    THEN IF start = 0 THEN [heap |-> h, node |-> node]
         ELSE IF start >= Length(h, node) THEN [heap |-> h, node |-> 0]
         ELSE LeafOf(h, Suffix(h[node].text, start))
    ELSE IF start < h[node].length
         THEN LET newLeft == extractSuffixShared(h, h[node].left, start)
              IN IF newLeft.node = 0 THEN [heap |-> newLeft.heap, node |-> h[node].right]
                 ELSE Over(newLeft.heap, newLeft.node, h[node].right)
         ELSE extractSuffixShared(h, h[node].right, start - h[node].length)

\* extractPrefixZeroAlloc over the store (node 0 for nil).
RECURSIVE extractPrefixShared(_, _, _)
extractPrefixShared(h, node, end) ==
    IF h[node].leaf
    THEN IF end >= Length(h, node) THEN [heap |-> h, node |-> node]
         ELSE IF end = 0 THEN [heap |-> h, node |-> 0]
         ELSE LeafOf(h, Prefix(h[node].text, end))
    ELSE IF end <= h[node].length
         THEN extractPrefixShared(h, h[node].left, end)
         ELSE LET newRight == extractPrefixShared(h, h[node].right,
                                                  end - h[node].length)
              IN IF newRight.node = 0 THEN [heap |-> newRight.heap, node |-> h[node].left]
                 ELSE Over(newRight.heap, h[node].left, newRight.node)

\* deleteMergeZeroAlloc over the store.
deleteMergeShared(h, left, leftStart, right, rightEnd) ==
    LET leftPart == extractSuffixShared(h, left, leftStart)
        rightPart == extractPrefixShared(leftPart.heap, right, rightEnd)
        h2 == rightPart.heap
    IN IF leftPart.node = 0 \/ Length(h2, leftPart.node) = 0
       THEN [heap |-> h2, node |-> rightPart.node]
       ELSE IF rightPart.node = 0 \/ Length(h2, rightPart.node) = 0
       THEN [heap |-> h2, node |-> leftPart.node]
       ELSE Over(h2, leftPart.node, rightPart.node)

\* deleteNodeZeroAlloc over the store.
RECURSIVE deleteNodeShared(_, _, _, _)
deleteNodeShared(h, node, start, end) ==
    IF h[node].leaf
    THEN LeafOf(h, Prefix(h[node].text, start) \o Suffix(h[node].text, end))
    ELSE IF end <= h[node].length
    THEN LET newLeft == deleteNodeShared(h, h[node].left, start, end)
         IN IF Length(newLeft.heap, newLeft.node) = 0
            THEN [heap |-> newLeft.heap, node |-> h[node].right]
            ELSE Over(newLeft.heap, newLeft.node, h[node].right)
    ELSE IF start >= h[node].length
    THEN LET newRight == deleteNodeShared(h, h[node].right,
                             start - h[node].length, end - h[node].length)
         IN IF Length(newRight.heap, newRight.node) = 0
            THEN [heap |-> newRight.heap, node |-> h[node].left]
            ELSE Over(newRight.heap, h[node].left, newRight.node)
    ELSE deleteMergeShared(h, h[node].left, start, h[node].right,
                           end - h[node].length)

\* Rope.DeleteZeroAlloc over the store, on a non-nil rope: panic (of the
\* range check or of r.Slice), or the store and the rope.  The root is 0
\* when deleteNodeZeroAlloc returned nil.
DeleteZeroAllocShared(h, r, start, end) ==
    IF start < 0 \/ end > r.length \/ start > end THEN [panic |-> TRUE]
    ELSE IF start = end THEN [panic |-> FALSE, heap |-> h, rope |-> r]
    ELSE LET deletedText == RopeSlice(String(h, r.root), start, end)
             newRoot == deleteNodeShared(h, r.root, start, end)
         IN IF deletedText.panic THEN [panic |-> TRUE]
            ELSE [panic |-> FALSE, heap |-> newRoot.heap,
                  rope |-> SharedRope(newRoot.node,
                                      r.length - RuneLen(deletedText.text),
                                      r.size - Utf8Len(deletedText.text))]

\* ----------------------------------------------------------------- RWMutex
\* History.mu, a sync.RWMutex: the number of goroutines holding the read
\* lock, the goroutine holding the write lock (0 for none), and the
\* goroutines that called Lock() and wait for it.  A waiting writer keeps
\* new readers out.
RWMutex == [readers |-> 0, writer |-> 0, waiting |-> {}]

\* RLock() returns / has returned.
RLockReturns(m) == m.writer = 0 /\ m.waiting = {}
RLocked(m) == [m EXCEPT !.readers = @ + 1]
RUnlocked(m) == [m EXCEPT !.readers = @ - 1]

\* Lock() by goroutine g: called, returns, has returned.
LockCalled(m, g) == [m EXCEPT !.waiting = @ \cup {g}]
LockReturns(m, g) == g \in m.waiting /\ m.readers = 0 /\ m.writer = 0
Locked(m, g) == [m EXCEPT !.writer = g, !.waiting = @ \ {g}]
Unlocked(m) == [m EXCEPT !.writer = 0]

\* ------------------------------------------------------------------- state
VARIABLES
    revisions,  \* History.revisions
    current,    \* History.current
    maxSize,    \* History.maxSize
    clock,      \* the next reading of time.Now()
    lastOp,     \* the last call made on the History: name, argument, revisions pruned
    ret,        \* the *Transaction that call returned (Nil when none)
    crashed,    \* a panic ended the program
    doc,        \* the text of the rope an editor using the History holds
    docs,       \* docs[i+1]: the editor's text right after it committed revision i
    mu,         \* History.mu: the goroutine holding the write lock, 0 when free
    pc,         \* pc[g]: where goroutine g is in CommitRevision
    local,      \* local[g]: the arguments and locals of goroutine g's call
    rope,       \* the text of the rope changesets are built against
    csA,        \* a ChangeSet built against rope
    csB,        \* a pointer to a second ChangeSet (Nil before it is created)
    out,        \* the last call made on the changesets and what it returned
    state,      \* the Client's state
    outstanding, \* the operation the Client sent and the server has not acknowledged
    buffer,     \* the operation the Client holds back until the acknowledgement
    wire,       \* the operations sent to the server and not yet acknowledged
    made,       \* made.local, made.remote: the local and remote operations so far
    sentLog,    \* the local edits handed to the server so far, in the order sent
    remoteApplied, \* a pointer to the remote operation the Client applied last
    tree,       \* a Rope: its root node and its cached length
    iter,       \* a LinesIterator made from tree
    nextFalse,  \* iter.Next() has returned false since iter was made or reset
    selection,  \* a Selection
    result,     \* the last call made on tree, iter, selection or ropes and what it returned
    heap,       \* the rope nodes allocated so far: heap[a] is the node at address a
    ropes,      \* the Ropes made so far over heap, the first by New
    rwmu,       \* History.mu as a reader-writer lock: readers, writer, waiting writers
    at          \* at[g]: where goroutine g is in Stats() or in a write operation

evars == <<doc, docs>>
cvars == <<mu, pc, local>>
hvars == <<revisions, current, maxSize, clock, lastOp, ret, crashed,
           doc, docs, mu, pc, local>>
avars == <<rope, csA, csB, out>>
fvars == <<state, outstanding, buffer, wire, made, sentLog, remoteApplied>>
rvars == <<tree, iter, nextFalse, selection, result>>
pvars == <<heap, ropes>>
svars == <<rwmu, at>>
vars == <<hvars, avars, fvars, rvars, pvars, svars>>

\* The History as one value.
H == HistoryOf(revisions, current, maxSize)

Goroutines == {1, 2}

Call(name, arg, pruned) == [name |-> name, arg |-> arg, pruned |-> pruned]

\* No goroutine is running: the History is used by one caller.
Idle ==
    /\ mu = 0
    /\ pc = [g \in Goroutines |-> "idle"]
    /\ local = [g \in Goroutines |-> Nil]

\* The state NewHistory() returns, before any call.
InitHistory ==
    /\ revisions = NewHistory.revisions
    /\ current = NewHistory.current
    /\ maxSize = NewHistory.maxSize
    /\ clock = 1
    /\ lastOp = Call("NewHistory", 0, 0)
    /\ ret = Nil
    /\ crashed = FALSE
    /\ doc = <<>>
    /\ docs = <<>>
    /\ Idle

\* An empty changeset on the empty rope, and no call made on it.
InitChangeSet(r) ==
    /\ rope = r
    /\ csA = NewChangeSet(Len(r))
    /\ csB = Nil
    /\ out = [name |-> "NewChangeSet"]

\* A Client that has sent nothing.
InitClient ==
    /\ state = StateSynchronized
    /\ outstanding = Nil
    /\ buffer = Nil
    /\ wire = <<>>
    /\ made = [local |-> 0, remote |-> 0]
    /\ sentLog = <<>>
    /\ remoteApplied = Nil

\* A rope, the iterator over its lines, and NewSelection() before any call.
InitTreeOf(r) ==
    /\ tree = r
    /\ iter = LinesIterator(r)
    /\ nextFalse = FALSE
    /\ selection = NewSelection(<<>>)
    /\ result = [name |-> "New"]

\* New(text) in an empty store.
InitShared(text) ==
    LET n == NewShared(<<>>, text)
    IN /\ heap = n.heap
       /\ ropes = <<n.rope>>

\* The lock of the History free, no goroutine in a call.
InitLock ==
    /\ rwmu = RWMutex
    /\ at = [g \in Goroutines |-> [pc |-> "idle", stats |-> Nil, calls |-> 0]]

InitRope(r) == InitTreeOf(r) /\ InitShared(<<>>) /\ InitLock

Init == InitHistory /\ InitChangeSet(<<>>) /\ InitClient /\ InitRope(Empty)

Install(h) ==
    /\ revisions' = h.revisions
    /\ current' = h.current
    /\ maxSize' = h.maxSize

\* ------------------------------------------------------ the caller's edits
\* Retain(p) Insert(c) Retain(n - p), built against a document of length n.
InsertAt(n, p, c) ==
    LET a == IF p > 0 THEN Retain(NewChangeSet(n), p) ELSE NewChangeSet(n)
        b == Insert(a, <<c>>)
    IN IF n - p > 0 THEN Retain(b, n - p) ELSE b

\* Retain(p) Delete(1) Retain(n - p - 1), built against a document of length n.
DeleteAt(n, p) ==
    LET a == IF p > 0 THEN Retain(NewChangeSet(n), p) ELSE NewChangeSet(n)
        b == Delete(a, 1)
    IN IF n - p - 1 > 0 THEN Retain(b, n - p - 1) ELSE b

\* The changesets an editor builds against the text d: it appends one
\* character or deletes the first one.
EditsOf(d) ==
    {InsertAt(Len(d), Len(d), c) : c \in (IF Len(d) < MaxDocLen THEN Alphabet ELSE {})}
    \cup {DeleteAt(Len(d), 0) : p \in (IF Len(d) > 0 THEN {0} ELSE {})}

\* The arguments (transaction's changeset, original rope) given to
\* CommitRevision when no document is followed: an insertion into the empty
\* text and a deletion from a one-character text.
CommitInputs ==
    {[cs |-> InsertAt(0, 0, "a"), original |-> <<>>],
     [cs |-> DeleteAt(1, 0), original |-> <<"a">>]}

\* The transactions CommitRevision treats as empty: nil, one without a
\* changeset, one whose changeset has no operation.
EmptyTransactions(now) ==
    {Nil, Ptr([changeset |-> Nil, timestamp |-> now]),
     Ptr(NewTransaction(NewChangeSet(0), now))}

\* --------------------------------------------------- whole calls, one caller
\* Every method below holds the write lock from entry to return, so a call is
\* one step.  These are the calls alone: what the caller does with the rope
\* it holds is added by the actions of the specifications.
Running == ~crashed /\ Idle

CommitCall(transaction, original) ==
    /\ Running
    /\ clock <= MaxCommits
    /\ Install(CommitRevisionH(H, transaction, original, clock))
    /\ lastOp' = Call("CommitRevision", 0,
                      pruneRoot(commitAppend(H, transaction, original, clock)))
    /\ clock' = clock + 1
    /\ ret' = Nil
    /\ UNCHANGED <<crashed, cvars>>
    /\ UNCHANGED <<avars, fvars, rvars, pvars, svars>>

\* A call that returns a *Transaction, with the answer a of its method.  A
\* panic in the method ends the program.  With applied, the caller is an
\* editor that applies the returned transaction to the rope it holds, and a
\* panic of the rope's primitives ends the program too.
ReturnCall(name, arg, a, applied) ==
    /\ Running
    /\ Install(a.h)
    /\ ret' = a.ret
    /\ lastOp' = Call(name, arg, 0)
    /\ LET r == IF a.panic THEN RopePanic
                ELSE IF applied THEN TransactionApply(a.ret, doc)
                ELSE RopeOk(doc)
       IN /\ crashed' = r.panic
          /\ doc' = IF r.panic THEN doc ELSE r.text
    /\ UNCHANGED <<clock, docs, cvars>>
    /\ UNCHANGED <<avars, fvars, rvars, pvars, svars>>

\* ----------------------------------------------- the History API, any caller
CommitRevision ==
    /\ \E in \in CommitInputs :
          CommitCall(Ptr(NewTransaction(in.cs, clock)), in.original)
    /\ UNCHANGED evars

CommitEmpty ==
    /\ Running
    /\ \E transaction \in EmptyTransactions(clock) :
          Install(CommitRevisionH(H, transaction, <<>>, clock))
    /\ lastOp' = Call("CommitEmpty", 0, 0)
    /\ ret' = Nil
    /\ UNCHANGED <<clock, crashed, evars, cvars>>
    /\ UNCHANGED <<avars, fvars, rvars, pvars, svars>>

Undo == ReturnCall("Undo", 0, UndoH(H), FALSE)

Redo == ReturnCall("Redo", 0, RedoH(H), FALSE)

GotoRevision ==
    \E index \in -2..Len(revisions) :
        ReturnCall("GotoRevision", index, GotoRevisionH(H, index), FALSE)

Earlier ==
    \E steps \in 0..MaxSteps :
        ReturnCall("Earlier", steps, EarlierH(H, steps), FALSE)

Later ==
    \E steps \in 0..MaxSteps :
        ReturnCall("Later", steps, LaterH(H, steps), FALSE)

SetMaxSize ==
    /\ Running
    /\ \E size \in 0..MaxSizeArg :
          /\ Install(SetMaxSizeH(H, size))
          /\ lastOp' = Call("SetMaxSize", size, pruneRoot([H EXCEPT !.maxSize = size]))
    /\ ret' = Nil
    /\ UNCHANGED <<clock, crashed, evars, cvars>>
    /\ UNCHANGED <<avars, fvars, rvars, pvars, svars>>

Clear ==
    /\ Running
    /\ Install(ClearH(H))
    /\ lastOp' = Call("Clear", 0, 0)
    /\ ret' = Nil
    /\ UNCHANGED <<clock, crashed, evars, cvars>>
    /\ UNCHANGED <<avars, fvars, rvars, pvars, svars>>

Next ==
    \/ CommitRevision
    \/ CommitEmpty
    \/ Undo
    \/ Redo
    \/ GotoRevision
    \/ Earlier
    \/ Later
    \/ SetMaxSize
    \/ Clear

Spec == Init /\ [][Next]_vars

\* ------------------------------------------- an editor holding a document
\* The editor commits changesets built against the rope it holds, passes that
\* rope as the original, and applies every transaction the History returns.
\* The run is followed while its text is at most MaxDocLen long (a returned
\* transaction that does not fit the text can lengthen it).
Editing == Len(doc) <= MaxDocLen

EditorCommit ==
    /\ Editing
    /\ \E cs \in EditsOf(doc) :
          LET transaction == Ptr(NewTransaction(cs, clock))
              n == pruneRoot(commitAppend(H, transaction, doc, clock))
              after == ChangeSetApply(cs, doc).text
          IN /\ CommitCall(transaction, doc)
             /\ doc' = after
             /\ docs' = SubSeq(Append(docs, after), n + 1, Len(docs) + 1)

EditorUndo == Editing /\ ReturnCall("Undo", 0, UndoH(H), TRUE)

EditorRedo == Editing /\ ReturnCall("Redo", 0, RedoH(H), TRUE)

EditorGoto ==
    /\ Editing
    /\ \E index \in -2..Len(revisions) :
          ReturnCall("GotoRevision", index, GotoRevisionH(H, index), TRUE)

EditorEarlier ==
    /\ Editing
    /\ \E steps \in 0..MaxSteps :
          ReturnCall("Earlier", steps, EarlierH(H, steps), TRUE)

EditorLater ==
    /\ Editing
    /\ \E steps \in 0..MaxSteps :
          ReturnCall("Later", steps, LaterH(H, steps), TRUE)

\* Commit, undo and redo alone.
NextUndoRedo ==
    \/ EditorCommit
    \/ EditorUndo
    \/ EditorRedo

SpecUndoRedo == Init /\ [][NextUndoRedo]_vars

\* The editor also navigates with GotoRevision, Earlier and Later.
NextEditor ==
    \/ EditorCommit
    \/ EditorUndo
    \/ EditorRedo
    \/ EditorGoto
    \/ EditorEarlier
    \/ EditorLater

SpecEditor == Init /\ [][NextEditor]_vars

\* The editor's text at revision i; before the first revision it is empty.
DocAt(i) == IF i < 0 THEN <<>> ELSE At(docs, i)

\* ------------------------------------- CommitRevision, statement by statement
\* Two goroutines call CommitRevision on one History at the same time.  The
\* History is first built by one caller (CommitRevision and Undo as whole
\* calls); Spawn then starts the two calls, each with its own transaction.

\* Lock as it would be without mutual exclusion.
MuFreeAlways(m) == TRUE

\* h.mu.Lock() returns when no goroutine holds the lock m.
MuFree(m) == m = 0

\* The frame of goroutine g's call: its arguments, then its locals.
Frame(transaction, original) ==
    [transaction |-> transaction, original |-> original,
     revision |-> Nil, newIndex |-> -1]

Spawn ==
    /\ Running
    /\ clock + 1 <= MaxCommits
    /\ \E in1 \in CommitInputs, in2 \in CommitInputs :
          local' = [g \in Goroutines |->
                      LET in == IF g = 1 THEN in1 ELSE in2
                      IN Ptr(Frame(Ptr(NewTransaction(in.cs, clock)), in.original))]
    /\ pc' = [g \in Goroutines |-> "lock"]
    /\ lastOp' = Call("Spawn", Len(revisions), 0)
    /\ ret' = Nil
    /\ UNCHANGED <<revisions, current, maxSize, clock, crashed, evars, mu>>
    /\ UNCHANGED <<avars, fvars, rvars, pvars, svars>>

\* h.mu.Lock()
Lock(g) ==
    /\ pc[g] = "lock"
    /\ MuFree(mu)
    /\ mu' = g
    /\ pc' = [pc EXCEPT ![g] = "create"]
    /\ UNCHANGED <<revisions, current, maxSize, clock, lastOp, ret, crashed,
                   evars, local>>
    /\ UNCHANGED <<avars, fvars, rvars, pvars, svars>>

\* The early return on an empty transaction; otherwise the inversion and the
\* new Revision, whose parent is h.current as read now.
Create(g) ==
    /\ pc[g] = "create"
    /\ LET f == Deref(local[g]) IN
       IF TransactionIsEmpty(f.transaction)
       THEN /\ pc' = [pc EXCEPT ![g] = "unlock"]
            /\ UNCHANGED <<clock, local>>
       ELSE /\ local' = [local EXCEPT ![g] =
                  Ptr([f EXCEPT !.revision =
                         Ptr(Revision(current, -1, f.transaction,
                                      TransactionInvert(f.transaction, f.original, clock),
                                      clock))])]
            /\ clock' = clock + 1
            /\ pc' = [pc EXCEPT ![g] = "append"]
    /\ UNCHANGED <<revisions, current, maxSize, lastOp, ret, crashed, evars, mu>>
    /\ UNCHANGED <<avars, fvars, rvars, pvars, svars>>

\* h.revisions = append(h.revisions, revision); newIndex := len(h.revisions) - 1
AppendRevision(g) ==
    /\ pc[g] = "append"
    /\ revisions' = Append(revisions, Deref(Deref(local[g]).revision))
    /\ local' = [local EXCEPT ![g] = Ptr([Deref(@) EXCEPT !.newIndex = Len(revisions)])]
    /\ pc' = [pc EXCEPT ![g] = "link"]
    /\ UNCHANGED <<current, maxSize, clock, lastOp, ret, crashed, evars, mu>>
    /\ UNCHANGED <<avars, fvars, rvars, pvars, svars>>

\* The parent's lastChild.
Link(g) ==
    /\ pc[g] = "link"
    /\ revisions' =
          IF current >= 0 /\ current < Len(revisions) - 1
          THEN [revisions EXCEPT ![current + 1].lastChild = Deref(local[g]).newIndex]
          ELSE revisions
    /\ pc' = [pc EXCEPT ![g] = "move"]
    /\ UNCHANGED <<current, maxSize, clock, lastOp, ret, crashed, evars, mu, local>>
    /\ UNCHANGED <<avars, fvars, rvars, pvars, svars>>

\* h.current = newIndex
Move(g) ==
    /\ pc[g] = "move"
    /\ current' = Deref(local[g]).newIndex
    /\ pc' = [pc EXCEPT ![g] = "prune"]
    /\ UNCHANGED <<revisions, maxSize, clock, lastOp, ret, crashed, evars, mu, local>>
    /\ UNCHANGED <<avars, fvars, rvars, pvars, svars>>

\* h.prune()
Prune(g) ==
    /\ pc[g] = "prune"
    /\ Install(prune(H))
    /\ pc' = [pc EXCEPT ![g] = "unlock"]
    /\ UNCHANGED <<clock, lastOp, ret, crashed, evars, mu, local>>
    /\ UNCHANGED <<avars, fvars, rvars, pvars, svars>>

\* The deferred h.mu.Unlock()
Unlock(g) ==
    /\ pc[g] = "unlock"
    /\ mu' = 0
    /\ pc' = [pc EXCEPT ![g] = "done"]
    /\ UNCHANGED <<revisions, current, maxSize, clock, lastOp, ret, crashed,
                   evars, local>>
    /\ UNCHANGED <<avars, fvars, rvars, pvars, svars>>

NextConc ==
    \/ CommitRevision
    \/ Undo
    \/ Spawn
    \/ \E g \in Goroutines : Lock(g)
    \/ \E g \in Goroutines : Create(g)
    \/ \E g \in Goroutines : AppendRevision(g)
    \/ \E g \in Goroutines : Link(g)
    \/ \E g \in Goroutines : Move(g)
    \/ \E g \in Goroutines : Prune(g)
    \/ \E g \in Goroutines : Unlock(g)

SpecConc == Init /\ [][NextConc]_vars

\* ------------------------------------------- Stats(), statement by statement
\* Goroutines call Stats() and write operations (CommitRevision, Undo, Redo,
\* SetMaxSize) on one History at the same time.  at[g].pc is the statement
\* goroutine g executes next, at[g].stats the HistoryStats it is filling in.

\* Goroutine g moves to statement pc.
Goes(g, pc2) == at' = [at EXCEPT ![g].pc = pc2]

StatsFrame == UNCHANGED <<clock, lastOp, ret, evars, cvars, avars, fvars, rvars, pvars>>
HistoryFrame == UNCHANGED <<revisions, current, maxSize, crashed>>

\* The calls started so far.
Calls == at[1].calls + at[2].calls

\* stats := h.Stats() begins.
StatsCall(g) ==
    /\ ~crashed
    /\ at[g].pc = "idle"
    /\ Calls < MaxCalls
    /\ at' = [at EXCEPT ![g] = [pc |-> "Stats:RLock", stats |-> Nil, calls |-> @.calls + 1]]
    /\ UNCHANGED rwmu
    /\ HistoryFrame /\ StatsFrame

\* An h.mu.RLock() at statement from returns.
RLockAt(g, from, to) ==
    /\ ~crashed
    /\ at[g].pc = from
    /\ RLockReturns(rwmu)
    /\ rwmu' = RLocked(rwmu)
    /\ Goes(g, to)
    /\ HistoryFrame /\ StatsFrame

\* Stats: h.mu.RLock()
StatsRLock(g) == RLockAt(g, "Stats:RLock", "Stats:fields")

\* Stats: TotalRevisions, CurrentIndex and MaxSize of the literal.
StatsFields(g) ==
    /\ ~crashed
    /\ at[g].pc = "Stats:fields"
    /\ at' = [at EXCEPT ![g].pc = "CanUndo:RLock",
                        ![g].stats = Ptr([TotalRevisions |-> Len(revisions),
                                          CurrentIndex |-> current,
                                          MaxSize |-> maxSize])]
    /\ UNCHANGED rwmu
    /\ HistoryFrame /\ StatsFrame

\* CanUndo: h.mu.RLock()
CanUndoRLock(g) == RLockAt(g, "CanUndo:RLock", "CanUndo:read")

\* CanUndo: the read of h.current and h.mu.RUnlock()
CanUndoRead(g) ==
    /\ ~crashed
    /\ at[g].pc = "CanUndo:read"
    /\ rwmu' = RUnlocked(rwmu)
    /\ at' = [at EXCEPT ![g].pc = "CanRedo:RLock",
                        ![g].stats = Ptr(Deref(@) @@ [CanUndo |-> CanUndoH(H)])]
    /\ HistoryFrame /\ StatsFrame

\* CanRedo: h.mu.RLock()
CanRedoRLock(g) == RLockAt(g, "CanRedo:RLock", "CanRedo:read")

\* CanRedo: the reads and h.mu.RUnlock(); an index out of range panics.
CanRedoRead(g) ==
    /\ ~crashed
    /\ at[g].pc = "CanRedo:read"
    /\ IF current # -1 /\ current < Len(revisions) /\ current < 0
       THEN /\ crashed' = TRUE
            /\ UNCHANGED <<rwmu, at, revisions, current, maxSize>>
       ELSE /\ rwmu' = RUnlocked(rwmu)
            /\ at' = [at EXCEPT ![g].pc = "Stats:RUnlock",
                                ![g].stats = Ptr(Deref(@) @@ [CanRedo |-> CanRedoH(H)])]
            /\ HistoryFrame
    /\ StatsFrame

\* Stats: the deferred h.mu.RUnlock(), and the return.
StatsRUnlock(g) ==
    /\ ~crashed
    /\ at[g].pc = "Stats:RUnlock"
    /\ rwmu' = RUnlocked(rwmu)
    /\ Goes(g, "idle")
    /\ HistoryFrame /\ StatsFrame

\* A write operation begins: its h.mu.Lock() is called.
WriteCall(g) ==
    /\ ~crashed
    /\ at[g].pc = "idle"
    /\ Calls < MaxCalls
    /\ rwmu' = LockCalled(rwmu, g)
    /\ at' = [at EXCEPT ![g] = [pc |-> "Lock", stats |-> Nil, calls |-> @.calls + 1]]
    /\ HistoryFrame /\ StatsFrame

\* h.mu.Lock() returns.
WriteLock(g) ==
    /\ ~crashed
    /\ at[g].pc = "Lock"
    /\ LockReturns(rwmu, g)
    /\ rwmu' = Locked(rwmu, g)
    /\ Goes(g, "write")
    /\ HistoryFrame /\ StatsFrame

\* The body of the write operation, under the write lock.
WriteBody(g) ==
    /\ ~crashed
    /\ at[g].pc = "write"
    /\ Goes(g, "Unlock")
    /\ \/ /\ clock <= MaxCommits
          /\ \E in \in CommitInputs :
                Install(CommitRevisionH(H, Ptr(NewTransaction(in.cs, clock)),
                                        in.original, clock))
          /\ clock' = clock + 1
          /\ UNCHANGED crashed
       \/ /\ \E a \in {UndoH(H), RedoH(H)} :
                Install(a.h) /\ crashed' = a.panic
          /\ UNCHANGED clock
       \/ /\ \E size \in 1..MaxSizeArg : Install(SetMaxSizeH(H, size))
          /\ UNCHANGED <<clock, crashed>>
    /\ UNCHANGED <<rwmu, lastOp, ret, evars, cvars, avars, fvars, rvars, pvars>>

\* h.mu.Unlock(), and the return.
WriteUnlock(g) ==
    /\ ~crashed
    /\ at[g].pc = "Unlock"
    /\ rwmu' = Unlocked(rwmu)
    /\ Goes(g, "idle")
    /\ HistoryFrame /\ StatsFrame

NextStats ==
    \/ \E g \in Goroutines : StatsCall(g)
    \/ \E g \in Goroutines : StatsRLock(g)
    \/ \E g \in Goroutines : StatsFields(g)
    \/ \E g \in Goroutines : CanUndoRLock(g)
    \/ \E g \in Goroutines : CanUndoRead(g)
    \/ \E g \in Goroutines : CanRedoRLock(g)
    \/ \E g \in Goroutines : CanRedoRead(g)
    \/ \E g \in Goroutines : StatsRUnlock(g)
    \/ \E g \in Goroutines : WriteCall(g)
    \/ \E g \in Goroutines : WriteLock(g)
    \/ \E g \in Goroutines : WriteBody(g)
    \/ \E g \in Goroutines : WriteUnlock(g)

SpecStats == Init /\ [][NextStats]_vars

\* ------------------------------------------------- the change algebra, used
\* A caller builds a changeset against a rope with NewChangeSet, Retain,
\* Delete and Insert, optionally a second one, and calls Apply, Invert,
\* Compose, Transform, MapPosition and PositionMapper.Map on them.

\* The runes of inserted text.
InsertRunes == {"x", Astral}

\* The text the ropes are prefixes of: every rune of a rope is different.
RopeText == <<"a", "b", "c", "d", "e">>

\* The ropes of at most MaxRopeLen runes.
Ropes == {SubSeq(RopeText, 1, n) : n \in 0..MaxRopeLen}

\* The length of the old document the operations read: Retain and Delete.
RECURSIVE Consumed(_)
Consumed(ops) ==
    IF ops = <<>> THEN 0
    ELSE Head(ops).Length + Consumed(Tail(ops))

\* The operations of a changeset counted as the builder calls that make
\* them, one rune per Insert (Apply and Invert fuse adjacent operations).
RECURSIVE Weight(_)
Weight(ops) ==
    IF ops = <<>> THEN 0
    ELSE (IF Head(ops).OpType = OpInsert THEN RuneLen(Head(ops).Text) ELSE 1)
         + Weight(Tail(ops))

\* What is left of the old document after the operations of cs.
Remaining(cs) == cs.lenBefore - Consumed(cs.operations)

\* The changeset the builder calls go to: the second one once it exists.
Building == IF IsNil(csB) THEN csA ELSE Deref(csB)

Built(cs) ==
    /\ csA' = IF IsNil(csB) THEN cs ELSE csA
    /\ csB' = IF IsNil(csB) THEN csB ELSE Ptr(cs)

BuilderCall(name, cs) ==
    /\ Weight(Building.operations) < (IF IsNil(csB) THEN MaxOps ELSE MaxSecondOps)
    /\ Built(cs)
    /\ out' = [name |-> name]
    /\ UNCHANGED <<rope, hvars, fvars, rvars, pvars, svars>>

BuildRetain ==
    \E n \in 0..Remaining(Building) : BuilderCall("Retain", Retain(Building, n))

BuildDelete ==
    \E n \in 0..Remaining(Building) : BuilderCall("Delete", Delete(Building, n))

BuildInsert ==
    \E c \in InsertRunes : BuilderCall("Insert", Insert(Building, <<c>>))

\* NewChangeSet for a second changeset: one to apply after csA, or one made
\* against the same rope.
NewSecond ==
    /\ IsNil(csB)
    /\ \E n \in {csA.lenAfter, csA.lenBefore} :
          /\ n \in 0..(MaxRopeLen + MaxOps)
          /\ csB' = Ptr(NewChangeSet(n))
    /\ out' = [name |-> "NewChangeSet"]
    /\ UNCHANGED <<rope, csA, hvars, fvars, rvars, pvars, svars>>

\* cs after cs.Apply on a non-nil rope: Apply fuses the receiver.
Applied(cs) == IF ChangeSetIsEmpty(cs) THEN cs ELSE fuse(cs)

\* cs.Apply(r) for any rope r, of the length cs was made for or not.
Apply ==
    /\ \E r \in Ropes :
          out' = [name |-> "Apply", rope |-> r, res |-> ChangeSetApply(csA, r)]
    /\ csA' = Applied(csA)
    /\ UNCHANGED <<rope, csB, hvars, fvars, rvars, pvars, svars>>

\* modified := cs.Apply(doc); inverted := cs.Invert(doc);
\* restored := inverted.Apply(modified)
Invert ==
    /\ LET modified == ChangeSetApply(csA, rope)
           inverted == ChangeSetInvert(Applied(csA), rope)
       IN out' = [name |-> "Invert", modified |-> modified, inverted |-> inverted,
                  restored |-> IF modified.panic \/ inverted.panic THEN RopePanic
                               ELSE ChangeSetApply(inverted.cs, modified.text)]
    /\ csA' = Applied(csA)
    /\ UNCHANGED <<rope, csB, hvars, fvars, rvars, pvars, svars>>

\* optimized := cs.Optimized()
OptimizedCall ==
    /\ out' = [name |-> "Optimized", cs |-> Optimized(csA)]
    /\ UNCHANGED <<rope, csA, csB, hvars, fvars, rvars, pvars, svars>>

\* Apply twice: the text b.Apply(a.Apply(r)).
ApplyBoth(a, b, r) ==
    LET first == ChangeSetApply(a, r)
    IN IF first.panic THEN RopePanic ELSE ChangeSetApply(b, first.text)

\* composed := a.Compose(b); result := composed.Apply(doc), next to
\* b.Apply(a.Apply(doc)).
Compose ==
    /\ ~IsNil(csB)
    /\ LET b == Deref(csB)
           composed == ChangeSetCompose(csA, b)
       IN /\ out' = [name |-> "Compose", composed |-> composed,
                     result |-> ChangeSetApply(composed, rope),
                     stepwise |-> ApplyBoth(csA, b, rope)]
          /\ csA' = Applied(csA)
          /\ csB' = Ptr(Applied(b))
    /\ UNCHANGED <<rope, hvars, fvars, rvars, pvars, svars>>

\* a.Transform(b).Apply(a.Apply(doc)) and b.Transform(a).Apply(b.Apply(doc)),
\* evaluated in this order.
Transform ==
    /\ ~IsNil(csB)
    /\ LET b == Deref(csB)
           a1 == Applied(csA)
       IN /\ out' = [name |-> "Transform",
                     left |-> ApplyBoth(csA, ChangeSetTransform(csA, b), rope),
                     right |-> ApplyBoth(b, ChangeSetTransform(b, a1), rope)]
          /\ csA' = a1
          /\ csB' = Ptr(Applied(b))
    /\ UNCHANGED <<rope, hvars, fvars, rvars, pvars, svars>>

\* cs.MapPosition(pos, assoc)
MapPositionCall ==
    /\ \E pos \in 0..csA.lenBefore, assoc \in Assoc :
          out' = [name |-> "MapPosition", pos |-> pos, assoc |-> assoc,
                  res |-> MapPosition(csA, pos, assoc)]
    /\ UNCHANGED <<rope, csA, csB, hvars, fvars, rvars, pvars, svars>>

\* The lists of at most n positions in 0..lenBefore.
RECURSIVE PositionLists(_, _)
PositionLists(lenBefore, n) ==
    IF n = 0 THEN {<<>>}
    ELSE PositionLists(lenBefore, n - 1)
         \cup {Append(ps, pos) :
                 ps \in {q \in PositionLists(lenBefore, n - 1) : Len(q) = n - 1},
                 pos \in 0..lenBefore}

\* MapPositions(cs, positions, assoc): NewPositionMapper(cs), AddPosition for
\* every position (Offset stays 0), then Map().
MapPositions(cs, positions, assoc) ==
    Map(cs, [i \in 1..Len(positions) |-> Position(positions[i], assoc, 0)])

MapCall ==
    /\ \E positions \in PositionLists(csA.lenBefore, MaxPositions), assoc \in Assoc :
          out' = [name |-> "Map", positions |-> positions, assoc |-> assoc,
                  res |-> MapPositions(csA, positions, assoc)]
    /\ UNCHANGED <<rope, csA, csB, hvars, fvars, rvars, pvars, svars>>

InitAlgebra ==
    /\ InitHistory
    /\ \E r \in Ropes : InitChangeSet(r)
    /\ InitClient
    /\ InitRope(Empty)

\* One changeset: built, applied, inverted.
NextChange ==
    \/ BuildRetain
    \/ BuildDelete
    \/ BuildInsert
    \/ Apply
    \/ Invert
    \/ OptimizedCall

SpecChange == InitAlgebra /\ [][NextChange]_vars

\* Two changesets: composed, transformed.
NextCompose ==
    \/ BuildRetain
    \/ BuildDelete
    \/ BuildInsert
    \/ NewSecond
    \/ Compose
    \/ Transform

SpecCompose == InitAlgebra /\ [][NextCompose]_vars

\* One changeset and the positions mapped through it.
NextMapping ==
    \/ BuildRetain
    \/ BuildDelete
    \/ BuildInsert
    \/ MapPositionCall
    \/ MapCall

SpecMapping == InitAlgebra /\ [][NextMapping]_vars

\* ----------------------------------------------------- the client, running
\* The Client as one value.
Client == ClientOf(state, outstanding, buffer)

\* The step of the Client to a.client: a.sent goes out to the server after
\* the operations w still waiting there for an acknowledgement.
ClientStep(a, w) ==
    /\ state' = a.client.state
    /\ outstanding' = a.client.outstanding
    /\ buffer' = a.client.buffer
    /\ wire' = w \o a.sent
    /\ sentLog' = IF a.sent = <<>> THEN sentLog ELSE sentLog \o a.sent[1].ids
    /\ UNCHANGED <<hvars, avars, rvars, pvars, svars>>

\* The user edits: the next local operation.
LocalOp ==
    /\ made.local < MaxLocalOps
    /\ ClientStep(ApplyClient(Client, ClientOp(<<made.local + 1>>, 0)), wire)
    /\ made' = [made EXCEPT !.local = @ + 1]
    /\ UNCHANGED remoteApplied

\* The server acknowledges the operation it received first.
Ack ==
    /\ wire # <<>>
    /\ ClientStep(ServerAck(Client), Tail(wire))
    /\ UNCHANGED <<made, remoteApplied>>

\* The server sends an operation of another client.
RemoteOp ==
    /\ made.remote < MaxRemoteOps
    /\ ClientStep(ApplyServer(Client), wire)
    /\ made' = [made EXCEPT !.remote = @ + 1]
    /\ remoteApplied' = Ptr(ServerApplied(Client, RemoteOperation(made.remote + 1, <<>>)))

NextClient ==
    \/ LocalOp
    \/ Ack
    \/ RemoteOp

SpecClient == Init /\ [][NextClient]_vars

\* The server answers: an acknowledgement that is due arrives.
SpecClientAcked == SpecClient /\ WF_vars(Ack)

\* ------------------------------------------------------------ lines, used
LineChars == {"a", NewLine}

RECURSIVE TextsOfLen(_, _)
TextsOfLen(chars, n) ==
    IF n = 0 THEN {<<>>}
    ELSE {Append(t, c) : t \in TextsOfLen(chars, n - 1), c \in chars}

LineTexts == UNION {TextsOfLen(LineChars, n) : n \in 0..MaxTextLen}

\* Line numbers and columns asked for: below, inside and past the range.
LineNumbers == (-1)..(LineCount(tree) + 1)

\* No Next() has been called on iter since r.LinesIterator().
Fresh ==
    \/ result.name = "New"
    \/ result.name \in {"Current", "CurrentWithEnding", "IterLines"} /\ result.fresh

InitLines ==
    /\ InitHistory
    /\ InitChangeSet(<<>>)
    /\ InitClient
    /\ \E t \in LineTexts : InitRope(New(t))

RopeCall(r) ==
    /\ result' = r
    /\ UNCHANGED <<tree, iter, nextFalse, selection, hvars, avars, fvars, pvars, svars>>

NextCall ==
    /\ iter.lineNum < iter.totalLines + MaxExtraCalls
    /\ LET n == LinesIteratorNext(iter)
       IN /\ iter' = n.it
          /\ nextFalse' = (nextFalse \/ ~n.more)
          /\ result' = [name |-> "Next", more |-> n.more]
    /\ UNCHANGED <<tree, selection, hvars, avars, fvars, pvars, svars>>

CurrentCall ==
    RopeCall([name |-> "Current", fresh |-> Fresh,
              res |-> LinesIteratorCurrent(iter, tree)])

CurrentWithEndingCall ==
    RopeCall([name |-> "CurrentWithEnding", fresh |-> Fresh,
              res |-> LinesIteratorCurrentWithEnding(iter, tree)])

ResetCall ==
    /\ iter' = LinesIteratorReset(iter)
    /\ nextFalse' = FALSE
    /\ result' = [name |-> "Reset"]
    /\ UNCHANGED <<tree, selection, hvars, avars, fvars, pvars, svars>>

\* lines, err := it.ToSlice()
ToSliceCall ==
    /\ LET t == ToSlice(iter, tree)
       IN /\ iter' = t.it
          /\ nextFalse' = ~(t.res.panic \/ t.res.err)
          /\ result' = [name |-> "ToSlice", res |-> t.res]
    /\ UNCHANGED <<tree, selection, hvars, avars, fvars, pvars, svars>>

\* for line := range IterLines(r) { ... }
IterLinesCall ==
    RopeCall([name |-> "IterLines", fresh |-> Fresh, res |-> IterLines(tree)])

LineAtCharCall ==
    \E pos \in 0..RopeLength(tree) :
        RopeCall([name |-> "LineAtChar", pos |-> pos, res |-> LineAtChar(tree, pos)])

ColumnAtCharCall ==
    \E pos \in 0..RopeLength(tree) :
        RopeCall([name |-> "ColumnAtChar", pos |-> pos, res |-> ColumnAtChar(tree, pos)])

LineStartCall ==
    \E n \in LineNumbers :
        RopeCall([name |-> "LineStart", lineNum |-> n, res |-> LineStart(tree, n)])

LineLengthCall ==
    \E n \in LineNumbers :
        RopeCall([name |-> "LineLength", lineNum |-> n, res |-> LineLength(tree, n)])

InsertLineCall ==
    \E n \in LineNumbers :
        RopeCall([name |-> "InsertLine", lineNum |-> n,
                  res |-> InsertLine(tree, n, <<"a">>)])

ReplaceLineCall ==
    \E n \in LineNumbers :
        RopeCall([name |-> "ReplaceLine", lineNum |-> n,
                  res |-> ReplaceLine(tree, n, <<"a">>)])

PositionAtLineColCall ==
    \E n \in LineNumbers :
        RopeCall([name |-> "PositionAtLineCol", lineNum |-> n,
                  res |-> PositionAtLineCol(tree, n, 0)])

\* The iterator over the lines of one rope.
NextIterator ==
    \/ NextCall
    \/ CurrentCall
    \/ CurrentWithEndingCall
    \/ ResetCall
    \/ ToSliceCall
    \/ IterLinesCall

SpecIterator == InitLines /\ [][NextIterator]_vars

\* The line operations on one rope.
NextLines ==
    \/ LineAtCharCall
    \/ ColumnAtCharCall
    \/ LineStartCall
    \/ LineLengthCall
    \/ InsertLineCall
    \/ ReplaceLineCall
    \/ PositionAtLineColCall

SpecLines == InitLines /\ [][NextLines]_vars

\* -------------------------------------------------------- rope tree, used
\* The nodes of at most the given height over text: every leaf partition of
\* the text into non-empty leaves and every shape.
RECURSIVE NodesOf(_, _)
NodesOf(text, depth) ==
    {LeafNode(text)} \cup
    (IF depth = 0 THEN {}
     ELSE UNION {{InternalNode(l, r, k) :
                     l \in NodesOf(Prefix(text, k), depth - 1),
                     r \in NodesOf(Suffix(text, k), depth - 1)} :
                 k \in 1..(Len(text) - 1)})

TreeRopes ==
    UNION {{RopeOf(n, len) : n \in NodesOf(SubSeq(RopeText, 1, len), MaxDepth)} :
           len \in 0..MaxTreeLen}

InitTree ==
    /\ InitHistory
    /\ InitChangeSet(<<>>)
    /\ InitClient
    /\ \E r \in TreeRopes : InitRope(r)

DeleteZeroAllocCall ==
    \E start \in 0..RopeLength(tree) :
        \E end \in start..RopeLength(tree) :
            RopeCall([name |-> "DeleteZeroAlloc", start |-> start, end |-> end,
                      res |-> DeleteZeroAlloc(tree, start, end)])

SplitOffCall ==
    \E pos \in (-1)..(RopeLength(tree) + 1) :
        RopeCall([name |-> "SplitOff", pos |-> pos, res |-> SplitOff(tree, pos)])

\* The hashes of tree and of another rope with the same text.
HashCodeCall ==
    \E other \in {o \in TreeRopes : RopeString(o) = RopeString(tree)} :
        RopeCall([name |-> "HashCode", other |-> other,
                  h32 |-> HashCode32(tree), h64 |-> HashCode64(tree),
                  o32 |-> HashCode32(other), o64 |-> HashCode64(other)])

\* left, right := r.Split(pos); merged := left.AppendRope(right)
SplitMergeCall ==
    \E pos \in 0..RopeLength(tree) :
        LET parts == Split(tree, pos)
            merged == AppendRope(parts.left, parts.right)
        IN RopeCall([name |-> "SplitMerge", pos |-> pos, merged |-> merged,
                     h32 |-> HashCode32(tree), h64 |-> HashCode64(tree),
                     o32 |-> HashCode32(merged), o64 |-> HashCode64(merged)])

NextTree ==
    \/ DeleteZeroAllocCall
    \/ SplitOffCall
    \/ HashCodeCall
    \/ SplitMergeCall

SpecTree == InitTree /\ [][NextTree]_vars

\* ------------------------------------------------- rope nodes, shared, used
\* A caller makes a rope with New and derives ropes from any rope made so
\* far with the append, prepend, insert and delete functions that build on
\* the nodes of their receiver.
NewTexts == {SubSeq(<<"a", Astral, "c", "d">>, 1, n) : n \in 0..MaxNewLen}

\* The text added by a call.
AddedText == <<"x">>

InitEdits ==
    /\ InitHistory
    /\ InitChangeSet(<<>>)
    /\ InitClient
    /\ InitTreeOf(Empty)
    /\ \E t \in NewTexts : InitShared(t)
    /\ InitLock

\* The ropes a call can be made on: made so far, with a root.
Receivers == {i \in 1..Len(ropes) : ropes[i].root # 0}

\* derived := ropes[i].<name>(...): res is what the call gave.
EditCall(name, i, res) ==
    /\ Len(ropes) <= MaxEdits
    /\ heap' = res.heap
    /\ ropes' = Append(ropes, res.rope)
    /\ result' = [name |-> name, recv |-> i]
    /\ UNCHANGED <<tree, iter, nextFalse, selection, hvars, avars, fvars, svars>>

AppendOptimizedCall ==
    \E i \in Receivers :
        EditCall("AppendOptimized", i, AppendOptimized(heap, ropes[i], AddedText))

PrependOptimizedCall ==
    \E i \in Receivers :
        EditCall("PrependOptimized", i, PrependOptimized(heap, ropes[i], AddedText))

AppendZeroAllocCall ==
    \E i \in Receivers :
        EditCall("AppendZeroAlloc", i, AppendZeroAlloc(heap, ropes[i], AddedText))

PrependZeroAllocCall ==
    \E i \in Receivers :
        EditCall("PrependZeroAlloc", i, PrependZeroAlloc(heap, ropes[i], AddedText))

InsertZeroAllocCall ==
    \E i \in Receivers :
        \E pos \in 0..ropes[i].length :
            LET res == InsertZeroAlloc(heap, ropes[i], pos, AddedText)
            IN ~res.panic /\ EditCall("InsertZeroAlloc", i, res)

DeleteZeroAllocSharedCall ==
    \E i \in Receivers :
        \E start \in 0..ropes[i].length :
            \E end \in start..ropes[i].length :
                LET res == DeleteZeroAllocShared(heap, ropes[i], start, end)
                IN ~res.panic /\ EditCall("DeleteZeroAlloc", i, res)

NextEdits ==
    \/ AppendOptimizedCall
    \/ PrependOptimizedCall
    \/ AppendZeroAllocCall
    \/ PrependZeroAllocCall
    \/ InsertZeroAllocCall
    \/ DeleteZeroAllocSharedCall

SpecEdits == InitEdits /\ [][NextEdits]_vars

\* -------------------------------------------------------- selection, used
Ranges == {Point(0), RangeOf(0, MaxSelPos)}

RECURSIVE ListsOver(_, _)
ListsOver(S, n) ==
    IF n = 0 THEN {<<>>}
    ELSE ListsOver(S, n - 1) \cup
         {Append(l, x) : l \in {m \in ListsOver(S, n - 1) : Len(m) = n - 1}, x \in S}

RangeLists == ListsOver(Ranges, MaxRanges)
PositionArgs == ListsOver({0, MaxSelPos}, MaxRanges)
PrimaryArgs == (-1)..MaxRanges

\* Changesets for a document of MaxSelPos characters.
SelectionChanges ==
    LET cs == NewChangeSet(MaxSelPos)
    IN {cs,
        Retain(cs, MaxSelPos),
        Delete(cs, MaxSelPos),
        Retain(Insert(Retain(cs, 1), <<"x">>), MaxSelPos - 1),
        Retain(Delete(cs, 1), MaxSelPos - 1)}

SelectionCall(s, r) ==
    /\ selection' = s
    /\ result' = r
    /\ UNCHANGED <<tree, iter, nextFalse, hvars, avars, fvars, pvars, svars>>

NewSelectionCall ==
    \E ranges \in RangeLists :
        SelectionCall(NewSelection(ranges), [name |-> "NewSelection"])

NewSelectionWithPrimaryCall ==
    \E ranges \in RangeLists, primaryIndex \in PrimaryArgs :
        SelectionCall(NewSelectionWithPrimary(ranges, primaryIndex),
                      [name |-> "NewSelectionWithPrimary"])

AddCall ==
    /\ SelectionLen(selection) < MaxRanges
    /\ \E r \in Ranges : SelectionCall(SelectionAdd(selection, r), [name |-> "Add"])

SetPrimaryCall ==
    \E index \in PrimaryArgs :
        SelectionCall(SetPrimary(selection, index), [name |-> "SetPrimary"])

\* s = s.MapPositions(cs), when the call returns.
MapPositionsCall ==
    \E cs \in SelectionChanges :
        LET m == SelectionMapPositions(selection, cs)
        IN /\ ~m.hang
           /\ SelectionCall(m.selection,
                             [name |-> "MapPositions", before |-> selection])

\* s = s.FromPositions(positions)
FromPositionsCall ==
    \E positions \in PositionArgs :
        SelectionCall(FromPositions(selection, positions),
                      [name |-> "FromPositions", positions |-> positions])

NextSelection ==
    \/ NewSelectionCall
    \/ NewSelectionWithPrimaryCall
    \/ AddCall
    \/ SetPrimaryCall
    \/ MapPositionsCall
    \/ FromPositionsCall

SpecSelection == Init /\ [][NextSelection]_vars

\* ------------------------------------------------------------------ claims
Indices(revs) == 0..(Len(revs) - 1)

\* The revisions committed under p.
Children(p) == {i \in Indices(revisions) : At(revisions, i).parent = p}

\* The child of p with the latest timestamp.
MostRecentChild(p) ==
    CHOOSE i \in Children(p) :
        \A j \in Children(p) : At(revisions, j).timestamp <= At(revisions, i).timestamp

\* What a revision holds apart from its links.
Content(rev) == <<rev.transaction, rev.inversion, rev.timestamp>>

Contents(revs) == [i \in 1..Len(revs) |-> Content(revs[i])]

\* C1: in every state reached by CommitRevision, Undo and Redo alone in which
\* CanUndo() is true, Undo() followed by Redo() puts current back on the same
\* index, Redo returns that revision's forward transaction, and applying the
\* two returned transactions in order restores the editor's document.
C1_UndoRedoRoundTrip ==
    CanUndoH(H) =>
        LET u == UndoH(H)
            r == RedoH(u.h)
            d1 == TransactionApply(u.ret, doc)
            d2 == TransactionApply(r.ret, d1.text)
        IN /\ r.h.current = current
           /\ r.ret = At(revisions, current).transaction
           /\ ~d1.panic /\ ~d2.panic
           /\ d2.text = doc

\* C2: a Redo() made when current is a revision p >= 0 that has children moves
\* current to the child most recently committed under p and returns that
\* child's forward transaction.
C2_RedoTakesLastCommittedChild ==
    [][(lastOp'.name = "Redo" /\ current >= 0 /\ Children(current) # {}) =>
          /\ current' = MostRecentChild(current)
          /\ ret' = At(revisions, MostRecentChild(current)).transaction
          /\ ~crashed']_vars

\* T1, T2, Undo, T3, then back to T1's revision and Redo: T2 and T3 are
\* siblings under T1 and the Redo has selected T3.
C2_Witness ==
    /\ lastOp.name = "Redo"
    /\ Len(revisions) = 3
    /\ At(revisions, 1).parent = 0
    /\ At(revisions, 2).parent = 0
    /\ current = 2
    /\ ret = At(revisions, 2).transaction

\* C3: a CommitRevision of a non-empty transaction that triggers no pruning
\* appends exactly one revision at index n = the previous RevisionCount(), with
\* parent the previous current and lastChild -1; the previous current revision
\* (if any) gets lastChild n; current becomes n; no other link changes.
C3_CommitAppendsOneRevision ==
    [][(lastOp'.name = "CommitRevision" /\ lastOp'.pruned = 0) =>
          LET n == Len(revisions) IN
          /\ Len(revisions') = n + 1
          /\ At(revisions', n).parent = current
          /\ At(revisions', n).lastChild = -1
          /\ current >= 0 => At(revisions', current).lastChild = n
          /\ current' = n
          /\ \A i \in Indices(revisions) :
                /\ At(revisions', i).parent = At(revisions, i).parent
                /\ i # current => At(revisions', i).lastChild = At(revisions, i).lastChild
                /\ Content(At(revisions', i)) = Content(At(revisions, i))]_vars

\* A commit without pruning made under a revision that was not the newest one.
C3_Witness ==
    /\ lastOp.name = "CommitRevision"
    /\ lastOp.pruned = 0
    /\ Len(revisions) = 3
    /\ At(revisions, 2).parent = 0
    /\ At(revisions, 0).lastChild = 2
    /\ current = 2

\* C4: Undo() with current >= 0 returns the inversion stored in the current
\* revision and sets current to that revision's parent; Undo() with current < 0
\* returns nil and leaves current unchanged; the revision list is not modified
\* in either case.
C4_UndoStepsToParent ==
    [][lastOp'.name = "Undo" =>
          /\ revisions' = revisions
          /\ maxSize' = maxSize
          /\ ~crashed'
          /\ IF current >= 0
             THEN /\ ret' = At(revisions, current).inversion
                  /\ current' = At(revisions, current).parent
             ELSE /\ ret' = Nil
                  /\ current' = current]_vars

\* An Undo that stepped from a revision to its parent on another branch than
\* the newest revision's.
C4_Witness ==
    /\ lastOp.name = "Undo"
    /\ ret # Nil
    /\ Len(revisions) = 3
    /\ current = 0
    /\ ret = At(revisions, 2).inversion
    /\ At(revisions, 2).parent = 0

\* No link of revs points outside revs or forward.
NoDangling(revs) ==
    \A i \in Indices(revs) :
        /\ At(revs, i).parent = -1 \/ At(revs, i).parent \in 0..(i - 1)
        /\ At(revs, i).lastChild = -1 \/ At(revs, i).lastChild \in Indices(revs)

\* C5: after any pruning (by CommitRevision or by SetMaxSize with a positive
\* size), every surviving revision's parent is -1 or the index of a surviving
\* revision smaller than its own, and every lastChild is -1 or the index of a
\* surviving revision.
C5_PruneLeavesNoDanglingIndex ==
    [][lastOp'.pruned > 0 => NoDangling(revisions')]_vars

\* C6: GotoRevision(target) with a valid target other than current sets current
\* to target and returns a transaction that, applied to the document of the
\* previous current revision, yields the document of the target revision.
C6_GotoYieldsTargetDocument ==
    [][(/\ lastOp'.name = "GotoRevision"
        /\ lastOp'.arg \in -1..(Len(revisions) - 1)
        /\ lastOp'.arg # current) =>
          LET r == TransactionApply(ret', DocAt(current)) IN
          /\ current' = lastOp'.arg
          /\ ~r.panic
          /\ r.text = DocAt(lastOp'.arg)]_vars

\* k Undo steps from h, stopping before the first revision.
RECURSIVE UndoN(_, _)
UndoN(h, k) ==
    IF k = 0 \/ ~CanUndoH(h) THEN h ELSE UndoN(UndoH(h).h, k - 1)

\* k Redo steps from h along lastChild, stopping at the tip.
RECURSIVE RedoN(_, _)
RedoN(h, k) ==
    IF k = 0 \/ ~CanRedoH(h) THEN h ELSE RedoN(RedoH(h).h, k - 1)

\* C7: Earlier(steps) with steps >= 1 moves current back by min(steps, number
\* of undo steps available) and Later(steps) moves it forward by up to steps
\* redo steps along lastChild; the transaction returned covers all the steps
\* taken: applied to the document of the previous current revision it yields
\* the document of the new one.
C7_EarlierLaterTakeAllSteps ==
    [][/\ (lastOp'.name = "Earlier" /\ lastOp'.arg >= 1) =>
             /\ current' = UndoN(H, lastOp'.arg).current
             /\ TransactionApply(ret', DocAt(current)).text = DocAt(current')
       /\ (lastOp'.name = "Later" /\ lastOp'.arg >= 1) =>
             /\ current' = RedoN(H, lastOp'.arg).current
             /\ TransactionApply(ret', DocAt(current)).text = DocAt(current')]_vars

\* C8: CommitRevision with a nil or empty transaction is a silent no-op: no
\* panic, and the revision list, every link and current stay as they were.
C8_EmptyCommitIsNoOp ==
    [][lastOp'.name = "CommitEmpty" =>
          /\ revisions' = revisions
          /\ current' = current
          /\ maxSize' = maxSize
          /\ ~crashed']_vars

\* An empty commit made on a history that holds revisions.
C8_Witness ==
    /\ lastOp.name = "CommitEmpty"
    /\ Len(revisions) >= 2
    /\ current >= 0

\* C9: whenever maxSize > 0 the revision count is at most maxSize; the
\* revisions a CommitRevision or SetMaxSize call removes are exactly the
\* oldest ones, and the most recently committed revision is never removed.
C9_SizeCapDropsOldest ==
    /\ [](maxSize > 0 => Len(revisions) <= maxSize)
    /\ [][/\ lastOp'.name = "CommitRevision" =>
                LET all == Append(Contents(revisions), Content(At(revisions', current')))
                    n == Len(all) - Len(revisions')
                IN /\ n >= 0
                   /\ Contents(revisions') = SubSeq(all, n + 1, Len(all))
                   /\ At(revisions', Len(revisions') - 1).timestamp = clock
          /\ lastOp'.name = "SetMaxSize" =>
                LET all == Contents(revisions)
                    n == Len(all) - Len(revisions')
                IN /\ n >= 0
                   /\ Contents(revisions') = SubSeq(all, n + 1, Len(all))
                   /\ Len(all) > 0 => Len(revisions') > 0]_vars

\* A commit that pushed the history over its cap and pruned.
C9_Witness ==
    /\ lastOp.name = "CommitRevision"
    /\ lastOp.pruned > 0
    /\ maxSize = 2
    /\ Len(revisions) = 2

\* C10: two goroutines each committing one non-empty transaction to the same
\* History: in every interleaving the final history holds both revisions after
\* the ones it started with, the later-indexed one has the earlier-indexed one
\* as parent, the earlier one's lastChild is the later one, and current is the
\* later one.
C10_ConcurrentCommitsAreSerialised ==
    (\A g \in Goroutines : pc[g] = "done") =>
        LET i1 == Deref(local[1]).newIndex
            i2 == Deref(local[2]).newIndex
            a == Min2(i1, i2)
            b == IF i1 < i2 THEN i2 ELSE i1
        IN /\ Len(revisions) = lastOp.arg + 2
           /\ a = lastOp.arg
           /\ b = a + 1
           /\ At(revisions, i1).transaction = Deref(local[1]).transaction
           /\ At(revisions, i2).transaction = Deref(local[2]).transaction
           /\ At(revisions, b).parent = a
           /\ At(revisions, a).lastChild = b
           /\ At(revisions, b).lastChild = -1
           /\ current = b

\* Both calls have returned, goroutine 2 got the lock first, and the calls
\* started on a history whose current revision was its only one.
C10_Witness ==
    /\ \A g \in Goroutines : pc[g] = "done"
    /\ Deref(local[2]).newIndex < Deref(local[1]).newIndex
    /\ lastOp.arg = 1
    /\ At(revisions, 1).parent = 0

\* ------------------------------------------------- claims, change algebra
\* cs reads the whole of the document it was made for.
Covers(cs) == Consumed(cs.operations) = cs.lenBefore

\* The length of text in UTF-16 code units.
RECURSIVE Utf16Len(_)
Utf16Len(text) ==
    IF text = <<>> THEN 0
    ELSE (IF Head(text) = Astral THEN 2 ELSE 1) + Utf16Len(Tail(text))

\* The sum of the Delete lengths of ops.
RECURSIVE Deleted(_)
Deleted(ops) ==
    IF ops = <<>> THEN 0
    ELSE (IF Head(ops).OpType = OpDelete THEN Head(ops).Length ELSE 0)
         + Deleted(Tail(ops))

\* The UTF-16 length of the text ops insert.
RECURSIVE InsertedUtf16(_)
InsertedUtf16(ops) ==
    IF ops = <<>> THEN 0
    ELSE (IF Head(ops).OpType = OpInsert THEN Utf16Len(Head(ops).Text) ELSE 0)
         + InsertedUtf16(Tail(ops))

\* The old-space position after the first k operations.
OldPos(ops, k) == Consumed(SubSeq(ops, 1, k))

\* The new-space position after the first k operations.
RECURSIVE NewLen(_)
NewLen(ops) ==
    IF ops = <<>> THEN 0
    ELSE (CASE Head(ops).OpType = OpRetain -> Head(ops).Length
            [] Head(ops).OpType = OpInsert -> RuneLen(Head(ops).Text)
            [] OTHER -> 0)
         + NewLen(Tail(ops))

NewPos(ops, k) == NewLen(SubSeq(ops, 1, k))

\* C11: for a changeset cs that covers the rope r it was built against,
\* cs.Invert(r) applied to cs.Apply(r) gives exactly the text of r, and the
\* inverse's LenBefore() is cs.LenAfter().
C11_InvertRestoresRope ==
    (out.name = "Invert" /\ Covers(csA)) =>
        /\ ~out.modified.panic
        /\ ~out.inverted.panic
        /\ ~out.restored.panic
        /\ out.restored.text = rope
        /\ out.inverted.cs.lenBefore = csA.lenAfter

\* An inversion of a changeset that deletes and inserts, restoring a rope the
\* changeset had changed.
C11_Witness ==
    /\ out.name = "Invert"
    /\ Covers(csA)
    /\ \E k \in 1..Len(csA.operations) : csA.operations[k].OpType = OpDelete
                                         /\ csA.operations[k].Length > 0
    /\ \E k \in 1..Len(csA.operations) : csA.operations[k].OpType = OpInsert
    /\ out.modified.text # rope
    /\ out.restored.text = rope

\* C12: for changesets a on rope r and b with b.LenBefore() = a.LenAfter(),
\* a.Compose(b).Apply(r) has the text of b.Apply(a.Apply(r)), and the composed
\* changeset has LenBefore() = a.LenBefore() and LenAfter() = b.LenAfter().
C12_ComposeIsApplyThenApply ==
    (/\ out.name = "Compose"
     /\ Deref(csB).lenBefore = csA.lenAfter
     /\ ~out.stepwise.panic) =>
        /\ out.result = out.stepwise
        /\ out.composed.lenBefore = csA.lenBefore
        /\ out.composed.lenAfter = Deref(csB).lenAfter

\* C13: for changesets a and b made for the same rope r, a.Transform(b)
\* applied after a gives the same text as b.Transform(a) applied after b; two
\* inserts into the empty rope give a's text followed by b's.
C13_TransformConverges ==
    (/\ out.name = "Transform"
     /\ Deref(csB).lenBefore = csA.lenBefore) =>
        /\ out.left = out.right
        /\ ~out.left.panic
        /\ (/\ rope = <<>>
            /\ Len(csA.operations) = 1 /\ csA.operations[1].OpType = OpInsert
            /\ Len(Deref(csB).operations) = 1
            /\ Deref(csB).operations[1].OpType = OpInsert) =>
               out.left.text = csA.operations[1].Text \o Deref(csB).operations[1].Text

\* C14: Apply on a rope whose length differs from the changeset's LenBefore()
\* fails and produces no rope.  (The Apply of the source has no error result:
\* the one way it can fail is a panic of a rope primitive.)
C14_ApplyRejectsLengthMismatch ==
    (out.name = "Apply" /\ Len(out.rope) # csA.lenBefore) => out.res.panic

\* C15: after any Retain/Delete/Insert calls on NewChangeSet(n), LenBefore()
\* is n and LenAfter() is n minus the Delete lengths plus the UTF-16 length of
\* the inserted text.
C15_LengthAccountingUtf16 ==
    /\ csA.lenBefore = Len(rope)
    /\ csA.lenAfter = csA.lenBefore - Deleted(csA.operations)
                      + InsertedUtf16(csA.operations)

\* The positions are in ascending order.
Ascending(positions) ==
    \A i \in 1..(Len(positions) - 1) : positions[i] <= positions[i + 1]

\* C16: for a changeset that covers its LenBefore() and an ascending list of
\* positions, PositionMapper.Map returns for each position the value
\* mapSinglePosition returns for it.
C16_SortedMapEqualsSingleMap ==
    (out.name = "Map" /\ Covers(csA) /\ Ascending(out.positions)) =>
        /\ ~out.res.hang
        /\ Len(out.res.result) = Len(out.positions)
        /\ \A i \in 1..Len(out.positions) :
              out.res.result[i] =
                 mapSinglePosition(csA, Position(out.positions[i], out.assoc, 0))

\* The Insert operations of cs that sit at old-space position p.
InsertsAt(cs, p) ==
    {k \in 1..Len(cs.operations) :
        /\ cs.operations[k].OpType = OpInsert
        /\ OldPos(cs.operations, k - 1) = p}

\* Where position p goes by the rule for an insertion point: cs has one
\* Insert at p; before it, or after its text.
AtInsert(cs, p, assoc) ==
    LET k == CHOOSE k \in InsertsAt(cs, p) : TRUE
    IN NewPos(cs.operations, k - 1)
       + (IF assoc = AssocAfter THEN RuneLen(cs.operations[k].Text) ELSE 0)

\* C17: a position exactly where the changeset inserts text t maps with
\* AssocBefore to the new-space start of t and with AssocAfter to that start
\* plus the length of t, by ChangeSet.MapPosition and by PositionMapper.Map.
C17_InsertPointFollowsAssoc ==
    /\ (/\ out.name = "MapPosition"
        /\ Covers(csA)
        /\ out.assoc \in {AssocBefore, AssocAfter}
        /\ Cardinality(InsertsAt(csA, out.pos)) = 1) =>
          out.res = AtInsert(csA, out.pos, out.assoc)
    /\ (/\ out.name = "Map"
        /\ Covers(csA)
        /\ out.assoc \in {AssocBefore, AssocAfter}) =>
          /\ ~out.res.hang
          /\ \A i \in 1..Len(out.positions) :
                Cardinality(InsertsAt(csA, out.positions[i])) = 1 =>
                   out.res.result[i] = AtInsert(csA, out.positions[i], out.assoc)

\* The Delete operations of cs that have p strictly inside their range.
DeletesAround(cs, p) ==
    {k \in 1..Len(cs.operations) :
        /\ cs.operations[k].OpType = OpDelete
        /\ OldPos(cs.operations, k - 1) < p
        /\ p < OldPos(cs.operations, k)}

\* C18: a position strictly inside a deleted range maps to the new-space
\* start of the deletion, under AssocBefore and AssocAfter, by
\* ChangeSet.MapPosition and by PositionMapper.Map.
C18_InsideDeleteCollapses ==
    /\ (/\ out.name = "MapPosition"
        /\ Covers(csA)
        /\ out.assoc \in {AssocBefore, AssocAfter}) =>
          \A k \in DeletesAround(csA, out.pos) :
              out.res = NewPos(csA.operations, k - 1)
    /\ (/\ out.name = "Map"
        /\ Covers(csA)
        /\ out.assoc \in {AssocBefore, AssocAfter}) =>
          /\ ~out.res.hang
          /\ \A i \in 1..Len(out.positions) :
                \A k \in DeletesAround(csA, out.positions[i]) :
                    out.res.result[i] = NewPos(csA.operations, k - 1)

\* The Retain operations of cs that have p inside their span.
RetainsAround(cs, p) ==
    {k \in 1..Len(cs.operations) :
        /\ cs.operations[k].OpType = OpRetain
        /\ OldPos(cs.operations, k - 1) <= p
        /\ p < OldPos(cs.operations, k)}

\* C19: a position p inside a Retain that starts at old_pos and new_pos (and
\* at which nothing is inserted) maps to new_pos + (p - old_pos) under Before,
\* After, BeforeSticky and AfterSticky.
C19_InsideRetainKeepsOffset ==
    (/\ out.name = "MapPosition"
     /\ Covers(csA)
     /\ out.assoc \in {AssocBefore, AssocAfter, AssocBeforeSticky, AssocAfterSticky}
     /\ InsertsAt(csA, out.pos) = {}) =>
        \A k \in RetainsAround(csA, out.pos) :
            out.res = NewPos(csA.operations, k - 1)
                      + (out.pos - OldPos(csA.operations, k - 1))

\* ----------------------------------------------------------- claims, client
\* The local edits m + 1, ..., n in order.
Edits(m, n) == [i \in 1..(n - m) |-> m + i]

\* C20: from Synchronized, after any local operations, acknowledgements and
\* remote operations, at most one operation is sent and not acknowledged, and
\* it is the outstanding one; there is a buffer only in AwaitingWithBuffer,
\* and it carries, in order, all the local edits made since the outstanding
\* operation was sent.
C20_OneOutstandingAndBuffer ==
    /\ Len(wire) <= 1
    /\ IsNil(outstanding) <=> state = StateSynchronized
    /\ IsNil(outstanding) <=> wire = <<>>
    /\ ~IsNil(outstanding) => wire[1].ids = Deref(outstanding).ids
    /\ ~IsNil(buffer) <=> state = StateAwaitingWithBuffer
    /\ ~IsNil(buffer) =>
          LET sent == Deref(outstanding).ids
          IN Deref(buffer).ids = Edits(sent[Len(sent)], made.local)

\* After an earlier operation was acknowledged: a buffer of several local
\* operations, transformed against a remote one.
C20_Witness ==
    /\ state = StateAwaitingWithBuffer
    /\ Len(Deref(buffer).ids) >= 2
    /\ Deref(buffer).over >= 1
    /\ Deref(outstanding).ids[1] > 1

\* The operations of this client a remote operation meets: the outstanding
\* one, then the buffer.
Pending(o, b) ==
    (IF IsNil(o) THEN <<>> ELSE <<Deref(o).ids>>)
        \o (IF IsNil(b) THEN <<>> ELSE <<Deref(b).ids>>)

\* The local edits are sent, or wait in the buffer, once and in the order made.
SentOnceInOrder ==
    sentLog \o (IF IsNil(buffer) THEN <<>> ELSE Deref(buffer).ids)
        = Edits(0, made.local)

\* An acknowledgement in AwaitingWithBuffer sends the buffer and leaves the
\* Client in AwaitingConfirm; one in AwaitingConfirm leaves it Synchronized.
AckMoves ==
    (made' = made) =>
        /\ state = StateAwaitingWithBuffer =>
              /\ state' = StateAwaitingConfirm
              /\ outstanding' = buffer
              /\ wire' = Tail(wire) \o <<Deref(buffer)>>
        /\ state = StateAwaitingConfirm =>
              /\ state' = StateSynchronized
              /\ wire' = Tail(wire)

\* A remote operation is applied after it was transformed against the
\* outstanding operation and then against the buffer.
RemoteMoves ==
    (made'.remote # made.remote) =>
        /\ Deref(remoteApplied').revision = made'.remote
        /\ Deref(remoteApplied').against = Pending(outstanding, buffer)

\* C21: every local operation is sent to the server exactly once, in the
\* order it was made, as the outstanding operation or inside the buffer sent
\* on the next acknowledgement; an acknowledgement in AwaitingWithBuffer sends
\* the buffer and moves to AwaitingConfirm, one in AwaitingConfirm moves to
\* Synchronized; a remote operation is transformed against the outstanding
\* operation and then against the buffer before it is applied; and once the
\* local operations have stopped, with the acknowledgements arriving, the
\* Client reaches Synchronized.
C21_SentOnceInOrderAndSynchronizes ==
    /\ []SentOnceInOrder
    /\ [][AckMoves /\ RemoteMoves]_vars
    /\ (made.local = MaxLocalOps) ~> (state = StateSynchronized /\ sentLog = Edits(0, MaxLocalOps))

\* All local operations made, two of them sent in one buffer, the Client
\* synchronized again after a remote operation met both an outstanding
\* operation and a buffer.
C21_Witness ==
    /\ state = StateSynchronized
    /\ made.local = MaxLocalOps
    /\ sentLog = Edits(0, made.local)
    /\ ~IsNil(remoteApplied)
    /\ Len(Deref(remoteApplied).against) = 2

\* ------------------------------------------------- claims, changeset values
\* C30: ChangeSet.Apply (and Transaction.Apply, which hands the call on to
\* its changeset) does not modify its receiver: the operation list,
\* LenBefore() and LenAfter() are the same before and after the call.
C30_ApplyLeavesReceiver ==
    [][out'.name = "Apply" =>
          /\ csA'.operations = csA.operations
          /\ csA'.lenBefore = csA.lenBefore
          /\ csA'.lenAfter = csA.lenAfter]_vars

\* ----------------------------------------------------------- claims, lines
\* C22: once Next() has returned false, every later Next() returns false and
\* every later Current() or CurrentWithEnding() returns an error, until Reset.
C22_ExhaustionIsPermanent ==
    nextFalse =>
        /\ result.name = "Next" => ~result.more
        /\ result.name \in {"Current", "CurrentWithEnding"} => result.res.err

\* Several calls past the last of two or more lines, the last one a read.
C22_Witness ==
    /\ nextFalse
    /\ iter.totalLines >= 2
    /\ iter.lineNum > iter.totalLines
    /\ result.name \in {"Current", "CurrentWithEnding"}

\* C23: on the iterator r.LinesIterator() returned, before any Next(),
\* Current() and CurrentWithEnding() return an error, for every rope.
C23_ReadBeforeFirstNextIsError ==
    (result.name \in {"Current", "CurrentWithEnding"} /\ result.fresh) =>
        result.res.err

\* C24: for a non-empty rope and a position p in [0, Length()),
\* LineStart(LineAtChar(p)) <= p, and p is before the start of line
\* LineAtChar(p) + 1 when that line exists; no call panics.
C24_LineRoundTrip ==
    (result.name = "LineAtChar" /\ result.pos < RopeLength(tree)) =>
        /\ ~result.res.panic
        /\ LET line == result.res.val
               start == LineStart(tree, line)
           IN /\ ~start.panic
              /\ start.val <= result.pos
              /\ line + 1 < LineCount(tree) =>
                    result.pos < LineStart(tree, line + 1).val

\* C27: InsertLine, ReplaceLine, LineStart, LineLength and PositionAtLineCol
\* with a line number outside [0, LineCount()) hand an out-of-bounds error to
\* the caller and do not panic.
C27_LineOutOfRangeIsError ==
    (/\ result.name \in {"InsertLine", "ReplaceLine", "LineStart", "LineLength",
                          "PositionAtLineCol"}
     /\ (result.lineNum < 0 \/ result.lineNum >= LineCount(tree))) =>
        (~result.res.panic /\ result.res.err)

\* ------------------------------------------------------ claims, rope tree
\* C25: for every rope and every range 0 <= start <= end <= Length(),
\* DeleteZeroAlloc(start, end) returns a rope whose text is the prefix
\* [0, start) followed by the suffix [end, Length()), the text Delete gives.
C25_DeleteZeroAllocRemovesRange ==
    result.name = "DeleteZeroAlloc" =>
        /\ ~result.res.panic
        /\ ~IsNil(result.res.root)
        /\ NodeString(Deref(result.res.root))
              = RopeDelete(RopeString(tree), result.start, result.end).text
        /\ NodeString(Deref(result.res.root))
              = Prefix(RopeString(tree), result.start)
                  \o Suffix(RopeString(tree), result.end)

\* C26: for every rope and every integer pos, SplitOff(pos) returns no error,
\* the left rope holds the first min(max(pos, 0), Length()) characters, the
\* right rope the rest, and left followed by right is the rope's text.
C26_SplitOffIsTotal ==
    result.name = "SplitOff" =>
        /\ ~result.res.err
        /\ LET text == RopeString(tree)
               n == Min2(IF result.pos > 0 THEN result.pos ELSE 0, RopeLength(tree))
           IN /\ RopeString(result.res.left) = SubSeq(text, 1, n)
              /\ RopeString(result.res.right) = SubSeq(text, n + 1, Len(text))
              /\ RopeString(result.res.left) \o RopeString(result.res.right) = text
              /\ RopeLength(result.res.left) = n
              /\ RopeLength(result.res.right) = Len(text) - n

\* A position past the end of a rope of several leaves.
C26_Witness ==
    /\ result.name = "SplitOff"
    /\ result.pos > RopeLength(tree)
    /\ ~tree.root.leaf
    /\ RopeString(result.res.left) = RopeString(tree)

\* C29: two ropes whose leaves give the same bytes have equal HashCode32()
\* and HashCode64(), whatever the leaf partition or the shape of the tree,
\* and so have a rope and its Split followed by AppendRope.
C29_HashIgnoresChunks ==
    result.name \in {"HashCode", "SplitMerge"} =>
        /\ result.h32 = result.o32
        /\ result.h64 = result.o64

\* Two ropes of the same text whose first leaves differ.
C29_Witness ==
    /\ result.name = "HashCode"
    /\ ~tree.root.leaf
    /\ ~result.other.root.leaf
    /\ tree.root.length # result.other.root.length
    /\ result.h64 = result.o64

\* ------------------------------------------------------ claims, selection
\* C28: after any NewSelection, NewSelectionWithPrimary, Add, SetPrimary,
\* MapPositions and FromPositions, the Selection holds at least one range and
\* 0 <= PrimaryIndex() < Len(); MapPositions returns a selection with the
\* same number of ranges and the same primary index.
C28_SelectionNonEmptyPrimaryInRange ==
    /\ SelectionLen(selection) >= 1
    /\ 0 <= PrimaryIndex(selection)
    /\ PrimaryIndex(selection) < SelectionLen(selection)
    /\ result.name = "MapPositions" =>
          /\ SelectionLen(selection) = SelectionLen(result.before)
          /\ PrimaryIndex(selection) = PrimaryIndex(result.before)

\* A selection of several ranges, its primary not the first, mapped.
C28_Witness ==
    /\ result.name = "MapPositions"
    /\ SelectionLen(selection) >= 2
    /\ PrimaryIndex(selection) >= 1

\* ------------------------------------------------ claims, fused changesets
\* No two adjacent operations of ops have the same kind.
NoAdjacentSameKind(ops) ==
    \A i \in 1..(Len(ops) - 1) : ops[i].OpType # ops[i + 1].OpType

\* No operation of ops is Retain(0), Delete(0) or Insert("").
NoEmptyOperation(ops) ==
    \A i \in 1..Len(ops) :
        IF ops[i].OpType = OpInsert THEN ops[i].Text # <<>>
        ELSE ops[i].Length # 0

\* fused is what fuse() made of cs: in normal form, with the lengths of cs,
\* applying to rope as cs does, and left alone by another fuse().
FusionNormalForm(cs, fused) ==
    /\ NoAdjacentSameKind(fused.operations)
    /\ NoEmptyOperation(fused.operations)
    /\ fused.lenBefore = cs.lenBefore
    /\ fused.lenAfter = cs.lenAfter
    /\ ChangeSetApply(fused, rope) = ChangeSetApply(cs, rope)
    /\ fuse(fused) = fused

\* C31: after fuse() has run, in Apply and Invert on the receiver and in
\* Optimized on the copy it returns, the operation list has no two adjacent
\* operations of the same kind and no empty operation, LenBefore() and
\* LenAfter() are those of the changeset, the changeset applies to the same
\* result, and fusing again changes nothing.
C31_FusionNormalForm ==
    [][/\ (out'.name \in {"Apply", "Invert"} /\ ~ChangeSetIsEmpty(csA)
            => FusionNormalForm(csA, csA'))
       /\ (out'.name = "Optimized" => FusionNormalForm(csA, out'.cs))]_vars

\* ------------------------------------------------- claims, lines in order
\* The lines of r, line 0 first, as Line returns them.
LinesOf(r) == [i \in 1..LineCount(r) |-> Line(r, i - 1)]

\* C32: a LinesIterator fresh from Rope.LinesIterator() and stepped with
\* `for it.Next() { it.Current() }`, as IterLines does, yields every line of
\* the rope once, in order, starting with line 0: as many lines as
\* LineCount() and the sequence ToSlice() returns.
C32_FreshIteratorYieldsEveryLine ==
    result.name = "IterLines" =>
        /\ ~result.res.panic
        /\ Len(result.res.val) = LineCount(tree)
        /\ [i \in 1..Len(result.res.val) |-> Returned(result.res.val[i])] = LinesOf(tree)
        /\ result.res = ToSlice(iter, tree).res

\* ------------------------------------------------ claims, rope nodes shared
\* The cached summaries of rope r agree with the text its tree holds.
SummaryHolds(h, r) ==
    /\ r.root # 0
    /\ r.length = RuneLen(String(h, r.root))
    /\ r.size = Utf8Len(String(h, r.root))
    /\ \A a \in Reachable(h, r.root) :
          ~h[a].leaf =>
              /\ h[a].length = RuneLen(String(h, h[a].left))
              /\ h[a].size = Utf8Len(String(h, h[a].left))

\* C33: after any sequence of New, AppendOptimized, PrependOptimized,
\* AppendZeroAlloc, PrependZeroAlloc, InsertZeroAlloc and DeleteZeroAlloc
\* calls with in-range arguments, every internal node's cached length and
\* size are the character and byte count of its left subtree, and the
\* rope's length and size are those of the text its tree holds.
C33_SummariesAgreeWithText ==
    \A i \in 1..Len(ropes) : SummaryHolds(heap, ropes[i])

\* Rope i and every node reachable from its root are the same after the step.
Untouched(i) ==
    /\ ropes'[i] = ropes[i]
    /\ \A a \in Reachable(heap, ropes[i].root) : heap'[a] = heap[a]
    /\ String(heap', ropes'[i].root) = String(heap, ropes[i].root)

\* The rope the step derived holds on to nodes of its receiver, a rope that
\* is not empty and whose summaries hold: all of its nodes after an append or
\* a prepend, a subtree of its root after an insert.
SharesWithReceiver ==
    LET r == ropes[result'.recv]
        derived == Reachable(heap', ropes'[Len(ropes')].root)
    IN r.length > 0 /\ SummaryHolds(heap, r) =>
          /\ result'.name \in {"AppendOptimized", "PrependOptimized",
                                "AppendZeroAlloc", "PrependZeroAlloc"}
             => r.root \in derived
          /\ result'.name = "InsertZeroAlloc" /\ ~heap[r.root].leaf
             => (heap[r.root].left \in derived \/ heap[r.root].right \in derived)

C35_LineAtCharIsALine ==
    RopeLength(tree) > 0 =>
        /\ result.name = "LineAtChar" =>
              /\ ~result.res.panic
              /\ result.res.val < LineCount(tree)
              /\ ~LineStart(tree, result.res.val).panic
        /\ result.name = "ColumnAtChar" => ~result.res.panic

\* --------------------------------------------------- claims, current index
\* The read of h.revisions[h.current] in CanRedo, AtTip and Redo, reached
\* when current is neither -1 nor past the end, is inside the list.
IndexedInRange(h) ==
    (h.current # -1 /\ h.current < Len(h.revisions)) => h.current >= 0

\* C36: in every state reachable by CommitRevision, Undo, Redo, GotoRevision,
\* Earlier, Later, SetMaxSize and Clear, current lies in
\* [-1, RevisionCount()-1], and so Redo, CanRedo and AtTip never index the
\* revision list out of range: no call panics.
C36_CurrentStaysInRange ==
    /\ current \in (-1)..(Len(revisions) - 1)
    /\ IndexedInRange(H)
    /\ lastOp.name = "Redo" => ~crashed

\* ------------------------------------------------ claims, query and step
\* The queries agree with the steps on history h.
QueriesAgree(h) ==
    /\ CanUndoH(h) <=> ~IsNil(UndoH(h).ret)
    /\ CanRedoH(h) <=> ~IsNil(RedoH(h).ret)
    /\ AtRootH(h) <=> ~CanUndoH(h)
    /\ AtTipH(h) <=> ~CanRedoH(h)

\* C38: in every reachable history state CanUndo(), CanRedo(), AtRoot() and
\* AtTip() return, CanUndo() is true exactly when an immediately following
\* Undo() returns a transaction, CanRedo() exactly when Redo() does, AtRoot()
\* is !CanUndo() and AtTip() is !CanRedo().
C38_QueriesAgreeWithSteps ==
    ~crashed => (IndexedInRange(H) /\ QueriesAgree(H))

\* ------------------------------------------------------- claims, Stats()
\* Goroutine g waits in an RLock() or a Lock() that does not return in this
\* state.
Blocked(g) ==
    \/ at[g].pc \in {"Stats:RLock", "CanUndo:RLock", "CanRedo:RLock"}
          /\ ~RLockReturns(rwmu)
    \/ at[g].pc = "Lock" /\ ~LockReturns(rwmu, g)

\* C37: with one goroutine in Stats(), which takes the read lock and then
\* calls CanUndo() and CanRedo(), each taking the read lock again, and another
\* goroutine in a write operation on the same History, no interleaving ends
\* with both goroutines blocked forever: Stats() always returns.
C37_StatsAlwaysReturns ==
    ~(\A g \in Goroutines : Blocked(g))

\* ------------------------------------------- claims, mapped positions
\* The association modes that need no document.
DocumentFree == {AssocBefore, AssocAfter, AssocBeforeSticky, AssocAfterSticky}

\* C39: for a changeset whose operations cover LenBefore(), every position p
\* in [0, LenBefore()] and every association mode that needs no document,
\* ChangeSet.MapPosition(p, assoc) and PositionMapper.Map return a value in
\* [0, LenAfter()], and for p <= q mapped with the same association the
\* result for p is not greater than the result for q.
C39_MappedPositionsStayInside ==
    (Covers(csA) /\ out.name \in {"MapPosition", "Map"}
       /\ out.assoc \in DocumentFree) =>
        /\ out.name = "MapPosition" =>
              /\ out.res \in 0..csA.lenAfter
              /\ \A p \in 0..out.pos :
                    MapPosition(csA, p, out.assoc) <= out.res
        /\ out.name = "Map" =>
              /\ ~out.res.hang
              /\ \A i \in 1..Len(out.res.result) :
                    out.res.result[i] \in 0..csA.lenAfter
              /\ \A i, j \in 1..Len(out.res.result) :
                    out.positions[i] <= out.positions[j]
                       => out.res.result[i] <= out.res.result[j]

====
